---- MODULE Spec2Model ----
(***************************************************************************)
(* A model of the LSP core of jupyterlab: the connection manager with its  *)
(* module-level connection pool (DocumentConnectionManager, Private), the  *)
(* virtual document with its line maps (VirtualDocument) and the update    *)
(* manager that serialises its rebuilds (UpdateManager).                   *)
(*                                                                         *)
(* JavaScript runs every synchronous stretch of code to completion, so one *)
(* action of the model is one such stretch: from a call, a timer or a      *)
(* socket event up to the next await.                                      *)
(***************************************************************************)
EXTENDS Integers, Sequences, FiniteSets, TLC

VARIABLES
  pool,              \* Private._connections: server identifier -> connection
  created,           \* number of LSPConnection objects constructed so far
  onCreateCalls,     \* per server identifier, the invocations of onCreate
  isReady,           \* LSPConnection.isReady of each connection object
  connections,       \* DocumentConnectionManager.connections (insertion-ordered Map)
  documents,         \* keys of DocumentConnectionManager.documents
  ignoredLanguages,  \* DocumentConnectionManager.ignoredLanguages
  adapterDisposed,   \* WidgetAdapter.isDisposed of the adapter of each document
  filteredHandler,   \* which revision of the adapter's 'closed' handler is built in
  procs,             \* the pending connect / retryToConnect calls
  lastFanout,        \* what the last connection event handler did
  doc,               \* the VirtualDocument: its fields
  appended,          \* the appendCodeBlock calls that built the line maps
  um,                \* the UpdateManager of the document: its flags
  tasks,             \* the pending updateDocuments / withUpdateLock calls
  running,           \* the task whose synchronous code is being executed
  lastRebuild,       \* what the last finished rebuild did, and the one before
  sawPartial,        \* a continuation has run in the middle of a rebuild
  call,              \* the last application of a function of the library
  instances          \* the VirtualDocument objects constructed so far, in order

connVars == <<pool, created, onCreateCalls, isReady, connections, documents,
              ignoredLanguages, adapterDisposed, filteredHandler, procs, lastFanout>>

docVars == <<doc, appended, um, tasks, running, lastRebuild, sawPartial>>

pureVars == <<call, instances>>

\* What the actions of the connection manager, and of the document, leave alone.
nonConnVars == <<docVars, pureVars>>
nonDocVars == <<connVars, pureVars>>

vars == <<connVars, docVars, pureVars>>

-----------------------------------------------------------------------------
(* The environment of the manager: documents, their languages, and the     *)
(* answers of the language server manager.                                 *)

Docs == {"d1", "d2", "d3", "d4"}

Language(d) ==
  CASE d = "d1" -> "python"
    [] d = "d2" -> "ipython"
    [] d = "d3" -> "r"
    [] OTHER    -> "x"

Languages == {Language(d) : d \in Docs}

ServerIds == {"pylsp", "rls"}

\* ILanguageServerManager.getMatchingServers({language}): best match first.
MatchingServers(lang) ==
  CASE lang \in {"python", "ipython"} -> <<"pylsp">>
    [] lang = "r"                      -> <<"rls">>
    [] OTHER                           -> <<>>

\* No server identifier (null).
NoServer == "null"

\* connectSocket takes the server at the head of the list (mutation: the one
\* at its end).
SelectLast(servers) ==
  IF Len(servers) = 0 THEN NoServer ELSE servers[Len(servers)]

SelectServer(servers) ==
  IF Len(servers) = 0 THEN NoServer ELSE servers[1]

\* The documents the concurrent callers connect, and those retryToConnect is
\* called for ("d4" has no language server installed).
ConnectDocs == {"d1", "d2", "d3"}
RetryDocs == {"d3", "d4"}

Procs == {"p1", "p2"}

\* Bounds of the model.
MaxConns == 3
FastRetrials == 1
SlowRetrials == 1
MaxAttempts == 4

\* The arguments retryToConnect is called with: reconnectDelay in quarters of
\* a second (1 s, 4.75 s, 5 s) and retrialsLeft.
ReconnectDelays == {4, 19, 20}
RetrialsLeft == {-1, 0, 1, 3}

ConnIds == 1..MaxConns
NoConn == 0

\* No function of the library has been applied yet.
NoCall == [fn |-> "none"]

-----------------------------------------------------------------------------
(* The insertion-ordered Map of the manager.                               *)

MapHas(m, k) == \E i \in 1..Len(m) : m[i].uri = k

MapGet(m, k) ==
  IF MapHas(m, k) THEN m[CHOOSE i \in 1..Len(m) : m[i].uri = k].conn ELSE NoConn

MapSet(m, k, v) ==
  IF MapHas(m, k)
  THEN [i \in 1..Len(m) |-> IF m[i].uri = k THEN [uri |-> k, conn |-> v] ELSE m[i]]
  ELSE Append(m, [uri |-> k, conn |-> v])

MapDelete(m, k) == SelectSeq(m, LAMBDA e : e.uri # k)

MapKeys(m) == {m[i].uri : i \in 1..Len(m)}

DocsOfConnection(m, c) == {m[i].uri : i \in {j \in 1..Len(m) : m[j].conn = c}}

Min(S) == CHOOSE x \in S : \A y \in S : x <= y

-----------------------------------------------------------------------------
(* Private.connection: the language-server-keyed cache of connections.     *)
(* The function has no await in its body: the lookup, the construction,    *)
(* the registration and onCreate run within the caller's synchronous       *)
(* stretch. The result names the pool afterwards, the number of connection *)
(* objects constructed, the connection returned and whether onCreate ran.  *)

\* Private.connection without the lookup: every call makes a connection and
\* puts it in the place of the one registered (mutation).
PrivateConnectionReplacing(pl, cr, sid) ==
  [pool |-> [pl EXCEPT ![sid] = cr + 1], created |-> cr + 1,
   conn |-> cr + 1, onCreate |-> TRUE]

PrivateConnectionUnregistered(pl, cr, sid) ==
  IF pl[sid] = NoConn
  THEN [pool |-> pl, created |-> cr + 1, conn |-> cr + 1, onCreate |-> TRUE]
  ELSE [pool |-> pl, created |-> cr, conn |-> pl[sid], onCreate |-> FALSE]

PrivateConnection(pl, cr, sid) ==
  IF pl[sid] = NoConn
  THEN [pool |-> [pl EXCEPT ![sid] = cr + 1], created |-> cr + 1,
        conn |-> cr + 1, onCreate |-> TRUE]
  ELSE [pool |-> pl, created |-> cr, conn |-> pl[sid], onCreate |-> FALSE]

-----------------------------------------------------------------------------
(* The adapters. Every adapter listens to the manager's 'closed' signal;   *)
(* disposing an adapter unregisters its document from the manager.         *)

\* DocumentConnectionManager.unregisterDocument, on the connections Map.
\* unregisterDocument dropping every document of the connection (mutation).
UnregisterAllOfConnection(m, d) ==
  IF MapHas(m, d)
    THEN SelectSeq(m, LAMBDA e : e.conn # MapGet(m, d))
    ELSE m

UnregisterFrom(m, d) == MapDelete(m, d)

\* WidgetAdapter.dispose -> disconnect -> unregisterDocument, for adapter a.
\* st: [connections, disposed].
DisposeAdapter(st, a) ==
  IF st.disposed[a] THEN st
  ELSE [st EXCEPT !.connections = UnregisterFrom(@, a),
                  !.disposed = [@ EXCEPT ![a] = TRUE]]

\* Whether the adapter of document a disposes on 'closed' carrying document d:
\* on_connection_closed() disposes whatever the payload, onConnectionClosed()
\* only for the adapter's own virtual document.
HandlerDisposes(filtered, a, d) == IF filtered THEN a = d ELSE TRUE

\* closed.emit({connection, virtualDocument: d}): every connected slot runs.
\* A disposed adapter has disconnected its slot.
RECURSIVE EmitClosed(_, _, _, _)
EmitClosed(st, filtered, d, todo) ==
  IF todo = {} THEN st
  ELSE LET a == CHOOSE x \in todo : TRUE
           st2 == IF ~st.disposed[a] /\ HandlerDisposes(filtered, a, d)
                  THEN DisposeAdapter(st, a) ELSE st
       IN EmitClosed(st2, filtered, d, todo \ {a})

\* The callback of the 'error' handler for one document of the connection:
\* 'closed' is emitted, then the document's language is ignored.
\* st: [connections, disposed, ignored, closed, threw].
ErrorCallback(st, filtered, d) ==
  LET e == EmitClosed([connections |-> st.connections, disposed |-> st.disposed],
                      filtered, d, Docs)
  IN [st EXCEPT !.connections = e.connections,
                !.disposed = e.disposed,
                !.closed = Append(@, d),
                !.ignored = @ \cup {Language(d)}]

\* The callback of the 'close' handler: 'closed' is emitted.
CloseCallback(st, filtered, d) ==
  LET e == EmitClosed([connections |-> st.connections, disposed |-> st.disposed],
                      filtered, d, Docs)
  IN [st EXCEPT !.connections = e.connections,
                !.disposed = e.disposed,
                !.closed = Append(@, d)]

\* forEachDocumentOfConnection: a live iteration of the connections Map. An
\* entry deleted before the iterator reaches it is not visited. The callback
\* receives documents.get(uri), which is undefined for a uri that is no key
\* of documents: the 'error' callback then throws on reading its uri and the
\* iteration ends there; the 'close' callback emits 'closed' with it.
Undefined == "undefined"

RECURSIVE ForEachDocumentOfConnection(_, _, _, _, _, _)
ForEachDocumentOfConnection(st, c, docs, filtered, isError, visited) ==
  LET left == {i \in 1..Len(st.connections) : st.connections[i].uri \notin visited}
  IN IF left = {} \/ st.threw THEN st
     ELSE LET e == st.connections[Min(left)]
              virtualDocument == IF e.uri \in docs THEN e.uri ELSE Undefined
              st2 == IF e.conn # c THEN st
                     ELSE IF ~isError THEN CloseCallback(st, filtered, virtualDocument)
                     ELSE IF virtualDocument = Undefined THEN [st EXCEPT !.threw = TRUE]
                     ELSE ErrorCallback(st, filtered, virtualDocument)
          IN ForEachDocumentOfConnection(st2, c, docs, filtered, isError,
                                         visited \cup {e.uri})

FanoutState ==
  [connections |-> connections, disposed |-> adapterDisposed,
   ignored |-> ignoredLanguages, closed |-> <<>>, threw |-> FALSE]

\* The record of an event: its kind, the connection, the documents bound to it
\* before, the 'closed' and the 'disconnected' signals in order, whether the
\* handler threw, and the number of 'documentsChanged' signals.
NoFanout ==
  [event |-> "none", conn |-> NoConn, bound |-> {}, closed |-> <<>>,
   disconnected |-> <<>>, threw |-> FALSE, documentsChanged |-> 0]

\* Every adapter disposed by a handler has called unregisterDocument once.
Unregistrations(before, after) ==
  Cardinality({a \in Docs : after[a] /\ ~before[a]})

-----------------------------------------------------------------------------
(* The calls in flight. A call of connect or retryToConnect is a record:   *)
(* where it is suspended (pc), its arguments and locals, and what it has   *)
(* done so far (attempts, sleeps, fx: the manager state it has touched).   *)

IdleProc ==
  [kind |-> "none", doc |-> "none", pc |-> "idle", conn |-> NoConn, polls |-> 0,
   result |-> "none", retrialsLeft |-> 0, reconnectDelay |-> 0, interval |-> 0,
   success |-> FALSE,
   attempts |-> 0, sleeps |-> <<>>, allFailed |-> TRUE, ignoredAtCall |-> FALSE,
   connectedAt |-> 0, emits |-> 0, readyAt |-> "none", fastPolls |-> 0,
   slowPolls |-> 0, fx |-> {}]

\* What follows the settling of connect() in its caller: a plain call is done;
\* retryToConnect marks success unless connect rejected (.then / .catch), and
\* sleeps for the current interval.
Settle(pr, res) ==
  IF pr.kind = "connect"
  THEN [pr EXCEPT !.pc = "done", !.result = res]
  ELSE [pr EXCEPT !.pc = "sleep", !.result = res,
                  !.success = (res # "rejected"),
                  !.allFailed = @ /\ res # "connected",
                  !.connectedAt = IF res = "connected" /\ @ = 0
                                    THEN pr.attempts ELSE @,
                  !.sleeps = Append(@, pr.interval)]

\* The end of connect() when the connection is ready: 'connected' is emitted
\* and the connection is returned. stage is where isReady was found true.
EmitConnected(pr, stage) ==
  [pr EXCEPT !.fx = @ \cup {"connected"}, !.emits = @ + 1, !.readyAt = stage]

\* untilReady(isReady, maxRetrials, interval) entered while isReady() is false:
\* i becomes 1 and either the budget is already exceeded or the first sleep starts.
UntilReadyExhaustedEarly(i, maxRetrials) == maxRetrials # -1 /\ i >= maxRetrials

UntilReadyExhausted(i, maxRetrials) == maxRetrials # -1 /\ i > maxRetrials

\* The slow stage of connect(), entered after the fast stage rejected.
EnterSlowStage(pr) ==
  IF UntilReadyExhausted(1, SlowRetrials)
  THEN Settle(pr, "undefined")
  ELSE [pr EXCEPT !.pc = "slow", !.polls = 1]

\* The fast stage of connect(), entered when the connection is not ready.
EnterFastStage(pr) ==
  IF UntilReadyExhausted(1, FastRetrials)
  THEN EnterSlowStage(pr)
  ELSE [pr EXCEPT !.pc = "fast", !.polls = 1]

\* connect() from its call to the await inside connectSocket:
\* connect_document_signals, solveUris, getMatchingServers, Private.connection.
ConnectBegin(p, pr0) ==
  LET pr == [pr0 EXCEPT !.attempts = @ + 1,
                        !.emits = 0, !.readyAt = "none", !.fastPolls = 0,
                        !.slowPolls = 0,
                        !.fx = @ \cup {"documents", "documentsChanged"}]
      servers == MatchingServers(Language(pr.doc))
  IN /\ documents' = documents \cup {pr.doc}
     /\ IF servers = <<>>
        THEN \* solveUris throws: connectSocket and connect reject
             /\ procs' = [procs EXCEPT ![p] = Settle(pr, "rejected")]
             /\ UNCHANGED <<pool, created, onCreateCalls>>
        ELSE LET languageServerId == SelectServer(servers)
                 r == PrivateConnection(pool, created, languageServerId)
             IN /\ r.created <= MaxConns
                /\ pool' = r.pool
                /\ created' = r.created
                /\ onCreateCalls' =
                     IF r.onCreate
                     THEN [onCreateCalls EXCEPT ![languageServerId] = @ + 1]
                     ELSE onCreateCalls
                /\ procs' = [procs EXCEPT ![p] =
                               [pr EXCEPT !.pc = "sock", !.conn = r.conn,
                                          !.fx = @ \cup {"pool"}]]
     /\ lastFanout' = NoFanout
     /\ UNCHANGED <<isReady, connections, ignoredLanguages, adapterDisposed,
                    filteredHandler>>

\* DocumentConnectionManager.connect(options), called by p for document d.
ConnectCall(p, d) ==
  /\ procs[p].pc = "idle"
  /\ ConnectBegin(p, [IdleProc EXCEPT !.kind = "connect", !.doc = d,
                        !.ignoredAtCall = (Language(d) \in ignoredLanguages)])

\* WidgetAdapter.connect: the adapter of document a asks the manager for a
\* connection. A disposed adapter has dropped its manager and connects nothing.
AdapterConnect(p, a) ==
  /\ ~adapterDisposed[a]
  /\ ConnectCall(p, a)

\* The continuation after the await in connectSocket: the connection is bound
\* to the document's uri; connect() then emits 'connected' if the connection is
\* ready and enters the fast polling stage if it is not.
ConnectResume(p) ==
  LET pr == [procs[p] EXCEPT !.fx = @ \cup {"connections"}]
  IN /\ procs[p].pc = "sock"
     /\ connections' = MapSet(connections, pr.doc, pr.conn)
     /\ procs' = [procs EXCEPT ![p] =
                    IF isReady[pr.conn]
                    THEN Settle(EmitConnected(pr, "immediate"), "connected")
                    ELSE EnterFastStage(pr)]
     /\ lastFanout' = NoFanout
     /\ UNCHANGED <<pool, created, onCreateCalls, isReady, documents,
                    ignoredLanguages, adapterDisposed, filteredHandler>>

\* A timer of the fast stage fires (every 150 ms): one turn of untilReady's loop.
PollFast(p) ==
  LET pr == [procs[p] EXCEPT !.fastPolls = @ + 1]
  IN /\ pr.pc = "fast"
     /\ procs' = [procs EXCEPT ![p] =
                    IF isReady[pr.conn]
                    THEN Settle(EmitConnected(pr, "fast"), "connected")
                    ELSE IF UntilReadyExhausted(pr.polls + 1, FastRetrials)
                    THEN EnterSlowStage(pr)
                    ELSE [pr EXCEPT !.polls = @ + 1]]
     /\ lastFanout' = NoFanout
     /\ UNCHANGED <<pool, created, onCreateCalls, isReady, connections, documents,
                    ignoredLanguages, adapterDisposed, filteredHandler>>

\* A timer of the slow stage fires (every 1000 ms).
PollSlow(p) ==
  LET pr == [procs[p] EXCEPT !.slowPolls = @ + 1]
  IN /\ pr.pc = "slow"
     /\ procs' = [procs EXCEPT ![p] =
                    IF isReady[pr.conn]
                    THEN Settle(EmitConnected(pr, "slow"), "connected")
                    ELSE IF UntilReadyExhausted(pr.polls + 1, SlowRetrials)
                    THEN Settle(pr, "undefined")
                    ELSE [pr EXCEPT !.polls = @ + 1]]
     /\ lastFanout' = NoFanout
     /\ UNCHANGED <<pool, created, onCreateCalls, isReady, connections, documents,
                    ignoredLanguages, adapterDisposed, filteredHandler>>

\* The caller has its result; the slot is free for another call.
Return(p) ==
  /\ procs[p].pc = "done"
  /\ procs' = [procs EXCEPT ![p] = IdleProc]
  /\ lastFanout' = NoFanout
  /\ UNCHANGED <<pool, created, onCreateCalls, isReady, connections, documents,
                 ignoredLanguages, adapterDisposed, filteredHandler>>

-----------------------------------------------------------------------------
(* DocumentConnectionManager.retryToConnect                                *)

\* The head of the while loop: another connect attempt, or the end.
\* retrialsLeft is compared and never changed by the loop.
RetryLoop(p, pr) ==
  IF pr.retrialsLeft # 0 /\ ~pr.success
  THEN /\ pr.attempts < MaxAttempts
       /\ ConnectBegin(p, pr)
  ELSE /\ procs' = [procs EXCEPT ![p] = [pr EXCEPT !.pc = "done"]]
       /\ lastFanout' = NoFanout
       /\ UNCHANGED <<pool, created, onCreateCalls, isReady, connections, documents,
                      ignoredLanguages, adapterDisposed, filteredHandler>>

\* The interval after a sleep: gradually increased, up to 5 sec.
NextInterval(interval) == IF interval < 5 * 1000 THEN interval + 500 ELSE interval

\* The guard of retryToConnect: the language has been ignored.
RetryIgnoredNever(lang, ignored) == FALSE

RetryIgnored(lang, ignored) == lang \in ignored

\* retryToConnect(options, reconnectDelay, retrialsLeft), called by p for
\* document d with a delay of q quarters of a second.
RetryCall(p, d, q, n) ==
  /\ procs[p].pc = "idle"
  /\ IF RetryIgnored(Language(d), ignoredLanguages)
     THEN /\ procs' = [procs EXCEPT ![p] =
                         [IdleProc EXCEPT !.kind = "retry", !.doc = d, !.pc = "done",
                                          !.retrialsLeft = n,
                                          !.reconnectDelay = (q * 1000) \div 4,
                                          !.ignoredAtCall = TRUE]]
          /\ lastFanout' = NoFanout
          /\ UNCHANGED <<pool, created, onCreateCalls, isReady, connections,
                         documents, ignoredLanguages, adapterDisposed,
                         filteredHandler>>
     ELSE RetryLoop(p, [IdleProc EXCEPT !.kind = "retry", !.doc = d,
                                        !.retrialsLeft = n,
                                        !.reconnectDelay = (q * 1000) \div 4,
                                        !.interval = (q * 1000) \div 4,
                                        !.ignoredAtCall =
                                           (Language(d) \in ignoredLanguages)])

\* The sleep between two attempts ends.
SleepDone(p) ==
  /\ procs[p].pc = "sleep"
  /\ RetryLoop(p, [procs[p] EXCEPT !.interval = NextInterval(@)])

-----------------------------------------------------------------------------
(* The events of a pooled connection (the handlers of onNewConnection) and *)
(* the other entry points of the manager and the adapters.                 *)

\* The server has answered the initialize request.
ServerReady(c) ==
  /\ c \in 1..created
  /\ ~isReady[c]
  /\ isReady' = [isReady EXCEPT ![c] = TRUE]
  /\ lastFanout' = NoFanout
  /\ UNCHANGED <<pool, created, onCreateCalls, connections, documents,
                 ignoredLanguages, adapterDisposed, filteredHandler, procs>>

\* connection.on('error'): code 1005 closes every document of the connection
\* and ignores its language; other errors are logged.
ServerError(c, code) ==
  /\ c \in 1..created
  /\ LET st == IF code = 1005
               THEN ForEachDocumentOfConnection(FanoutState, c, documents,
                                                filteredHandler, TRUE, {})
               ELSE FanoutState
     IN /\ connections' = st.connections
        /\ adapterDisposed' = st.disposed
        /\ ignoredLanguages' = st.ignored
        /\ lastFanout' = IF code = 1005
                         THEN [event |-> "rejected", conn |-> c,
                               bound |-> DocsOfConnection(connections, c),
                               closed |-> st.closed, disconnected |-> <<>>,
                               threw |-> st.threw,
                               documentsChanged |->
                                 Unregistrations(adapterDisposed, st.disposed)]
                         ELSE NoFanout
  /\ UNCHANGED <<pool, created, onCreateCalls, isReady, documents,
                 filteredHandler, procs>>

\* connection.on('close'): a manual close closes every document of the connection;
\* any other close is logged ('Connection unexpectedly disconnected').
ServerClose(c, closedManually) ==
  /\ c \in 1..created
  /\ LET st == IF closedManually
               THEN ForEachDocumentOfConnection(FanoutState, c, documents,
                                                filteredHandler, FALSE, {})
               ELSE FanoutState
     IN /\ connections' = st.connections
        /\ adapterDisposed' = st.disposed
        /\ lastFanout' = IF closedManually
                         THEN [event |-> "closed", conn |-> c,
                               bound |-> DocsOfConnection(connections, c),
                               closed |-> st.closed, disconnected |-> <<>>,
                               threw |-> st.threw,
                               documentsChanged |->
                                 Unregistrations(adapterDisposed, st.disposed)]
                         ELSE [NoFanout EXCEPT
                                 !.event = "lost", !.conn = c,
                                 !.bound = DocsOfConnection(connections, c)]
  /\ UNCHANGED <<pool, created, onCreateCalls, isReady, documents,
                 ignoredLanguages, filteredHandler, procs>>

\* DocumentConnectionManager.unregisterDocument(virtualDocument)
UnregisterDocument(d) ==
  /\ MapHas(connections, d)
  /\ connections' = UnregisterFrom(connections, d)
  /\ lastFanout' = [event |-> "unregistered", conn |-> MapGet(connections, d),
                    bound |-> {d}, closed |-> <<>>, disconnected |-> <<>>,
                    threw |-> FALSE,
                    documentsChanged |-> 1]
  /\ UNCHANGED <<pool, created, onCreateCalls, isReady, documents, ignoredLanguages,
                 adapterDisposed, filteredHandler, procs>>

\* DocumentConnectionManager.disconnect_document_signals(virtualDocument)
DisconnectDocumentSignals(d) ==
  /\ d \in documents
  /\ documents' = documents \ {d}
  /\ lastFanout' = NoFanout
  /\ UNCHANGED <<pool, created, onCreateCalls, isReady, connections, ignoredLanguages,
                 adapterDisposed, filteredHandler, procs>>

\* The widget of an adapter is disposed: WidgetAdapter.dispose.
AdapterDispose(a) ==
  /\ ~adapterDisposed[a]
  /\ LET st == DisposeAdapter([connections |-> connections,
                               disposed |-> adapterDisposed], a)
     IN /\ connections' = st.connections
        /\ adapterDisposed' = st.disposed
  /\ lastFanout' = NoFanout
  /\ UNCHANGED <<pool, created, onCreateCalls, isReady, documents, ignoredLanguages,
                 filteredHandler, procs>>

\* The tests of documentChanged before it sends: the adapter is not disposed
\* and the connection found for the uri exists and is ready.
SendsChangeUnready(disposed, connection, ready) ==
  ~disposed /\ connection # NoConn

SendsChange(disposed, connection, ready) ==
  ~disposed /\ connection # NoConn /\ ready[connection]

\* WidgetAdapter.documentChanged: the 'changed' signal of the virtual document
\* of adapter a arrives; the full text is sent over connections.get(uri).
DocumentChanged(a) ==
  LET connection == IF MapHas(connections, a) THEN MapGet(connections, a)
                    ELSE NoConn
      sends == SendsChange(adapterDisposed[a], connection, isReady)
  IN /\ lastFanout' = [NoFanout EXCEPT
                         !.event = IF sends THEN "sent" ELSE "skipped",
                         !.conn = IF sends THEN connection ELSE NoConn,
                         !.bound = {a}]
     /\ UNCHANGED <<pool, created, onCreateCalls, isReady, connections, documents,
                    ignoredLanguages, adapterDisposed, filteredHandler, procs>>

-----------------------------------------------------------------------------
(* Text.  A string is a sequence of characters, so that split and join are *)
(* computed and two different lists of blocks can give the same value.     *)

NL == "\n"

\* String.prototype.split('\n')
RECURSIVE Split(_)
Split(s) ==
  IF \A i \in 1..Len(s) : s[i] # NL
    THEN <<s>>
    ELSE LET i == Min({j \in 1..Len(s) : s[j] = NL})
         IN <<SubSeq(s, 1, i - 1)>> \o Split(SubSeq(s, i + 1, Len(s)))

\* Array.prototype.join(sep)
RECURSIVE Join(_, _)
Join(parts, sep) ==
  IF Len(parts) = 0 THEN <<>>
  ELSE IF Len(parts) = 1 THEN parts[1]
  ELSE parts[1] \o sep \o Join(Tail(parts), sep)

\* String.prototype.repeat(n)
Repeat(c, n) == [i \in 1..n |-> c]

-----------------------------------------------------------------------------
(* VirtualDocument.                                                        *)

Editors == {"e1", "e2"}

BlankLinesBetweenCells == 2

\* The sourceLine of a padding line.
Null == -1

\* The results of the position queries: a position, null, or an exception.
Pos(ch, line) == [kind |-> "pos", ch |-> ch, line |-> line]
NullResult == [kind |-> "null", ch |-> 0, line |-> 0]
Throws == [kind |-> "throws", ch |-> 0, line |-> 0]

EmptyMap == [k \in {} |-> Null]

\* The shift appendCodeBlock falls back to ({line: 0, column: 0}; an absent
\* virtualShift counts as zero: virtualShift?.line || 0).
ZeroShift == [line |-> 0, column |-> 0]

\* The state after the constructor (_editorToSourceLineNew is assigned by the
\* first 'updateBegan' handler, before anything reads it).
NewDocument ==
  [isDisposed            |-> FALSE,
   virtualLines          |-> EmptyMap,
   sourceLines           |-> EmptyMap,
   lastVirtualLine       |-> 0,
   lastSourceLine        |-> 0,
   lineBlocks            |-> <<>>,
   lineBlocksNull        |-> FALSE,
   previousValue         |-> [defined |-> FALSE, value |-> <<>>],
   editorToSourceLine    |-> EmptyMap,
   editorToSourceLineNew |-> EmptyMap]

\* clear() leaving the line counters as they are (mutation).
ClearKeepingCounters(d) ==
  [d EXCEPT !.virtualLines = EmptyMap,
            !.sourceLines = EmptyMap,
            !.lineBlocks = <<>>,
            !.lineBlocksNull = FALSE]

\* clear() leaving the list of blocks as it is (mutation).
ClearKeepingBlocks(d) ==
  [d EXCEPT !.virtualLines = EmptyMap,
            !.sourceLines = EmptyMap,
            !.lastVirtualLine = 0,
            !.lastSourceLine = 0]

\* VirtualDocument.clear()
Clear(d) ==
  [d EXCEPT !.virtualLines = EmptyMap,
            !.sourceLines = EmptyMap,
            !.lastVirtualLine = 0,
            !.lastSourceLine = 0,
            !.lineBlocks = <<>>,
            !.lineBlocksNull = FALSE]

\* VirtualDocument.dispose()
Dispose(d) ==
  IF d.isDisposed THEN d
  ELSE [d EXCEPT !.isDisposed = TRUE,
                 !.sourceLines = EmptyMap,
                 !.virtualLines = EmptyMap,
                 !.lineBlocks = <<>>,
                 !.lineBlocksNull = TRUE]

\* The sourceLine appendCodeBlock gives line i of a block (mutation: the line
\* number inside the block).
VirtualLineSourceInBlock(lastSourceLine, i) == i

VirtualLineSource(lastSourceLine, i) == lastSourceLine + i

\* The sourceLine appendCodeBlock gives a blank line after a block (mutation:
\* the first source line of the block).
PaddingSourceFabricated(lastSourceLine) == lastSourceLine

PaddingSource(lastSourceLine) == Null

\* The test that makes appendCodeBlock return at once (mutation: no test).
AppendGuardNever(d) == FALSE

AppendGuard(d) == d.isDisposed

\* appendCodeBlock reaches lineBlocks.push with lineBlocks null: a TypeError.
AppendThrows(d) == ~AppendGuard(d) /\ d.lineBlocksNull

\* VirtualDocument.appendCodeBlock(block, editorShift, virtualShift); what a
\* call that throws at lineBlocks.push has done before is kept.
AppendCodeBlock(d, block, editorShift, virtualShift) ==
  IF AppendGuard(d) THEN d
  ELSE
    LET lines == Split(block.value)
        sourceCellLines == Split(block.value)
        lvl == d.lastVirtualLine
        lsl == d.lastSourceLine
        padFrom == lvl + Len(lines)
        codeLines == lvl..(lvl + Len(lines) - 1)
        padLines == IF d.lineBlocksNull THEN {}
                    ELSE padFrom..(padFrom + BlankLinesBetweenCells - 1)
        newSource == lsl..(lsl + Len(sourceCellLines) - 1)
    IN [d EXCEPT
          !.virtualLines =
             [v \in (DOMAIN d.virtualLines) \cup codeLines \cup padLines |->
                IF v \in padLines
                  THEN [skipInspect |-> TRUE, editor |-> block.ceEditor,
                        sourceLine |-> PaddingSource(lsl)]
                ELSE IF v \in codeLines
                  THEN [skipInspect |-> FALSE, editor |-> block.ceEditor,
                        sourceLine |-> VirtualLineSource(lsl, v - lvl)]
                ELSE d.virtualLines[v]],
          !.sourceLines =
             [s \in (DOMAIN d.sourceLines) \cup newSource |->
                IF s \in newSource
                  THEN [editorLine |-> s - lsl,
                        editorShift |->
                          [line |-> editorShift.line - virtualShift.line,
                           column |-> IF s - lsl = 0
                                        THEN editorShift.column - virtualShift.column
                                        ELSE 0],
                        editor |-> block.ceEditor,
                        foreignDocumentsMap |-> {},
                        virtualLine |-> lvl + (s - lsl)]
                ELSE d.sourceLines[s]],
          !.lastVirtualLine = IF d.lineBlocksNull THEN padFrom
                              ELSE padFrom + BlankLinesBetweenCells,
          !.lineBlocks = IF d.lineBlocksNull THEN d.lineBlocks
                         ELSE Append(d.lineBlocks, Join(lines, <<NL>>) \o <<NL>>),
          !.lastSourceLine = IF d.lineBlocksNull THEN lsl
                             ELSE lsl + Len(sourceCellLines)]

\* VirtualDocument.value (mutation: the blocks joined by nothing more than
\* their own newline).
ValueWithoutPadding(d) == Join(d.lineBlocks, <<>>)

\* VirtualDocument.value
Value(d) == Join(d.lineBlocks, Repeat(NL, BlankLinesBetweenCells))

\* VirtualDocument.virtualPositionAtDocument(sourcePosition): the
\* foreignDocumentsMap of every source line is empty, so its loop has no turn.
VirtualPositionAtDocument(d, sourcePosition) ==
  IF sourcePosition.line \notin DOMAIN d.sourceLines
    THEN Throws
    ELSE Pos(sourcePosition.ch, d.sourceLines[sourcePosition.line].virtualLine)

\* VirtualDocument.transformVirtualToSource(position)
TransformVirtualToSource(d, position) ==
  IF position.line \notin DOMAIN d.virtualLines
    THEN Throws
    ELSE LET line == d.virtualLines[position.line].sourceLine
         IN IF line = Null THEN NullResult ELSE Pos(position.ch, line)

\* VirtualDocument.transformSourceToEditor(pos)
TransformSourceToEditor(d, pos) ==
  IF pos.line \notin DOMAIN d.sourceLines
    THEN Throws
    ELSE LET sourceLine == d.sourceLines[pos.line]
             editorLine == sourceLine.editorLine
             editorShift == sourceLine.editorShift
         IN Pos(pos.ch + (IF editorLine = 0 THEN editorShift.column ELSE 0),
                editorLine + editorShift.line)

\* VirtualDocument.transformVirtualToEditor(virtualPosition)
TransformVirtualToEditor(d, virtualPosition) ==
  LET sourcePosition == TransformVirtualToSource(d, virtualPosition)
  IN IF sourcePosition.kind # "pos"
       THEN sourcePosition
       ELSE TransformSourceToEditor(d, sourcePosition)

\* VirtualDocument.transformFromEditorToRoot(editor, position)
TransformFromEditorToRoot(d, editor, position) ==
  IF editor \notin DOMAIN d.editorToSourceLine
    THEN NullResult
    ELSE Pos(position.ch, position.line + d.editorToSourceLine[editor])

\* VirtualDocument.getEditorAtVirtualLine(pos)
GetEditorAtVirtualLine(d, pos) ==
  LET line == IF pos.line \in DOMAIN d.virtualLines THEN pos.line ELSE pos.line - 1
  IN IF line \in DOMAIN d.virtualLines THEN d.virtualLines[line].editor
     ELSE "throws"

\* VirtualDocument.maybeEmitChanged: the test of the emission (mutation: every
\* rebuild emits).
ShouldEmitAlways(value, previousValue) == TRUE

ShouldEmit(value, previousValue) ==
  ~previousValue.defined \/ value # previousValue.value

-----------------------------------------------------------------------------
(* isWithinRange.                                                          *)

\* The test with the end of the range left out (mutation).
IsWithinRangeExclusive(position, range) ==
  IF range.start.line = range.end.line
    THEN /\ position.line = range.start.line
         /\ position.column >= range.start.column
         /\ position.column < range.end.column
    ELSE \/ /\ position.line = range.start.line
            /\ position.column >= range.start.column
            /\ position.line < range.end.line
         \/ /\ position.line > range.start.line
            /\ position.column < range.end.column
            /\ position.line = range.end.line
         \/ position.line > range.start.line /\ position.line < range.end.line

\* isWithinRange(position, range)
IsWithinRange(position, range) ==
  IF range.start.line = range.end.line
    THEN /\ position.line = range.start.line
         /\ position.column >= range.start.column
         /\ position.column <= range.end.column
    ELSE \/ /\ position.line = range.start.line
            /\ position.column >= range.start.column
            /\ position.line < range.end.line
         \/ /\ position.line > range.start.line
            /\ position.column <= range.end.column
            /\ position.line = range.end.line
         \/ position.line > range.start.line /\ position.line < range.end.line

\* Bounds of the grid the positions and the ends of the ranges are taken from.
MaxGridLine == 3
MaxGridColumn == 6

GridPositions == [line : 0..MaxGridLine, column : 0..MaxGridColumn]

\* A call of isWithinRange.
CallIsWithinRange(position, start, end) ==
  /\ call = NoCall
  /\ call' = [fn |-> "isWithinRange", position |-> position,
              range |-> [start |-> start, end |-> end],
              result |-> IsWithinRange(position, [start |-> start, end |-> end])]
  /\ UNCHANGED <<connVars, docVars, instances>>

-----------------------------------------------------------------------------
(* The identity of a VirtualDocument: instanceId, virtualId, idPath, uri.  *)
(* A document of `instances' is a record of the fields these read; parent  *)
(* is the position of the parent document in `instances', or NoParent.     *)

NoParent == 0

\* Bound of the model: the documents constructed.
MaxInstances == 3

\* The paths ("n" and "n b"), languages and file extensions of the documents.
Paths == {<<"n">>, <<"n", " ", "b">>}
DocLanguages == {<<"p", "y">>, <<"r">>}
FileExtension(language) == IF language = <<"r">> THEN <<"R">> ELSE <<"p", "y">>

\* encodeURI(path): of the characters of the paths, the space is escaped.
RECURSIVE EncodeURI(_)
EncodeURI(path) ==
  IF path = <<>> THEN <<>>
  ELSE (IF Head(path) = " " THEN <<"%", "2", "0">> ELSE <<Head(path)>>)
         \o EncodeURI(Tail(path))

\* The decimal text of a number, as string concatenation produces it.
RECURSIVE NumberText(_)
NumberText(n) ==
  LET digit == <<"0", "1", "2", "3", "4", "5", "6", "7", "8", "9">>[(n % 10) + 1]
  IN IF n < 10 THEN <<digit>> ELSE NumberText(n \div 10) \o <<digit>>

\* VirtualDocument.virtualId with the language for every document (mutation).
VirtualIdLanguage(d) == d.language

\* VirtualDocument.virtualId
VirtualId(d) ==
  IF d.standalone
    THEN NumberText(d.instanceId) \o <<"(">> \o d.language \o <<")">>
    ELSE d.language

\* VirtualDocument.idPath
RECURSIVE IdPath(_, _)
IdPath(insts, i) ==
  IF insts[i].parent = NoParent
    THEN VirtualId(insts[i])
    ELSE IdPath(insts, insts[i].parent) \o <<"-">> \o VirtualId(insts[i])

\* VirtualDocument.uri
Uri(insts, i) ==
  LET encodedPath == EncodeURI(insts[i].path)
  IN IF insts[i].parent = NoParent
       THEN encodedPath
       ELSE encodedPath \o <<".">> \o IdPath(insts, i) \o <<".">>
              \o insts[i].file_extension

\* new VirtualDocument(options): the document takes the next instance
\* identifier. The first document is the root; the later ones are created
\* under a document of its tree, with the path of the root.
CreateDocument(language, standalone, parent, path) ==
  /\ Len(instances) < MaxInstances
  /\ IF Len(instances) = 0
       THEN parent = NoParent
       ELSE parent \in 1..Len(instances) /\ path = instances[1].path
  /\ LET d == [instanceId |-> Len(instances), language |-> language,
               standalone |-> standalone, parent |-> parent, path |-> path,
               file_extension |-> FileExtension(language), isDisposed |-> FALSE,
               createdUri |-> <<>>]
         insts == Append(instances, d)
     IN instances' = [insts EXCEPT ![Len(insts)].createdUri = Uri(insts, Len(insts))]
  /\ UNCHANGED <<connVars, docVars, call>>

\* VirtualDocument.dispose() of a document of the tree: the reference to the
\* parent is dropped.
DisposeDocument(i) ==
  /\ i \in 1..Len(instances)
  /\ ~instances[i].isDisposed
  /\ instances' = [instances EXCEPT ![i].isDisposed = TRUE, ![i].parent = NoParent]
  /\ UNCHANGED <<connVars, docVars, call>>

-----------------------------------------------------------------------------
(* The inputs of the document.                                             *)

\* Bounds of the model.
MaxBlocks == 2
MaxColumn == 1

\* The texts of the cells: "", "a", "a\na" and "a\n\n\na".
BlockValues ==
  {<<>>, <<"a">>, <<"a", NL, "a">>, <<"a", NL, NL, NL, "a">>}

Blocks == [value : BlockValues, ceEditor : Editors]

Shifts ==
  {[editorShift |-> ZeroShift, virtualShift |-> ZeroShift],
   [editorShift |-> [line |-> 1, column |-> 2],
    virtualShift |-> [line |-> 0, column |-> 1]]}

Block(value, editor) == [value |-> value, ceEditor |-> editor]

\* The block lists updateDocuments is called with; the third and the fourth
\* give the same text.
UpdateBlocks ==
  {<<>>,
   <<Block(<<"a">>, "e1")>>,
   <<Block(<<"a">>, "e1"), Block(<<"a">>, "e2")>>,
   <<Block(<<"a", NL, NL, NL, "a">>, "e1")>>}

Columns == 0..MaxColumn

\* A block whose value is undefined: no string, so that value.split throws.
UndefinedValue == <<"undefined">>

Malformed(block) == block.value = UndefinedValue

\* Block lists with a malformed block, at the head and behind a good block.
FaultyUpdateBlocks ==
  {<<Block(UndefinedValue, "e1")>>,
   <<Block(<<"a">>, "e1"), Block(UndefinedValue, "e2")>>}

-----------------------------------------------------------------------------
(* Calls on a VirtualDocument.                                             *)

\* appendCodeBlock(block, editorShift, virtualShift)
DocAppend(block, shift) ==
  /\ Len(appended) < MaxBlocks
  /\ doc' = AppendCodeBlock(doc, block, shift.editorShift, shift.virtualShift)
  /\ appended' = IF doc.isDisposed THEN appended
                 ELSE Append(appended, [block |-> block,
                                        editorShift |-> shift.editorShift,
                                        virtualShift |-> shift.virtualShift])
  /\ call' = [fn |-> "appendCodeBlock", disposed |-> doc.isDisposed,
              threw |-> AppendThrows(doc), before |-> doc]
  /\ UNCHANGED <<um, tasks, running, lastRebuild, sawPartial>>

\* clear()
DocClear ==
  /\ doc' = Clear(doc)
  /\ appended' = <<>>
  /\ call' = NoCall
  /\ UNCHANGED <<um, tasks, running, lastRebuild, sawPartial>>

\* dispose()
DocDispose ==
  /\ doc' = Dispose(doc)
  /\ appended' = <<>>
  /\ call' = NoCall
  /\ UNCHANGED <<um, tasks, running, lastRebuild, sawPartial>>

-----------------------------------------------------------------------------
(* UpdateManager.  A task is one call of updateDocuments or withUpdateLock *)
(* with the continuations it leaves behind.  `running' is the task whose   *)
(* synchronous code is being executed: the rebuild is written as the steps *)
(* of one callback, and no continuation of another task runs between them. *)

Tasks == {"t1", "t2"}
NoTask == "none"

UpdateRetrials == 10
LockRetrials == 12

\* newest: no updateDocuments call was made after this one.
\* log: the events of the task's rebuild, in the order they happened.
IdleTask == [kind |-> "none", pc |-> "idle", i |-> 0, blocks |-> <<>>,
             fn |-> "none", k |-> 0, newest |-> FALSE, log |-> <<>>]

\* An event of a rebuild: its name, the block it is about (0: none), and the
\* number of blocks in the document when it happened (noted for the events of
\* a block only).
Event(name, k, inDoc) == [e |-> name, k |-> k, inDoc |-> inDoc]

NewUpdateManager == [isUpdateInProgress |-> FALSE, updateLock |-> FALSE,
                     isDisposed |-> FALSE]

\* UpdateManager.canUpdate()
CanUpdate(m) == ~m.isDisposed /\ ~m.isUpdateInProgress /\ ~m.updateLock

\* The poll budgets of updateDocuments and withUpdateLock (mutation: none).
MaxRetrialsNone(kind) == 0

MaxRetrials(kind) == IF kind = "update" THEN UpdateRetrials ELSE LockRetrials

\* One turn of the loop of untilReady: resolved, rejected, or asleep.
UntilReadyTurn(tk, m) ==
  IF CanUpdate(m) THEN [tk EXCEPT !.pc = "ready"]
  ELSE IF UntilReadyExhausted(tk.i + 1, MaxRetrials(tk.kind))
    THEN [tk EXCEPT !.i = tk.i + 1, !.pc = "exhausted"]
  ELSE [tk EXCEPT !.i = tk.i + 1, !.pc = "sleep"]

\* The rebuild is one callback without an await: appending a block does not
\* give the control back to the event loop (mutation: it does).
AppendYieldsAlways(block) == TRUE

AppendYields(block) == FALSE

\* The blocks a rebuild works on: the argument of its own call, which the
\* callback has closed over (mutation: the argument of the most recent call).
LatestBlocks(tk) ==
  IF \E u \in Tasks : tasks[u].kind = "update" /\ tasks[u].newest
    THEN tasks[CHOOSE u \in Tasks :
                 tasks[u].kind = "update" /\ tasks[u].newest].blocks
    ELSE tk.blocks

CapturedBlocks(tk) == tk.blocks

\* A rebuild has cleared the document and not yet appended its last block.
MidRebuild ==
  \E t \in Tasks :
    tasks[t].pc = "append" /\ tasks[t].k <= Len(CapturedBlocks(tasks[t]))

\* The tasks after task t has made the updateDocuments call tk.
Initiated(t, tk) ==
  [u \in Tasks |-> IF u = t THEN [tk EXCEPT !.newest = TRUE]
                   ELSE [tasks[u] EXCEPT !.newest = FALSE]]

\* A continuation starts only when no synchronous code is being executed.
Scheduled == running = NoTask

\* updateDocuments(blocks), called from a continuation of its own.
UpdateCall(t, blocks) ==
  /\ Scheduled
  /\ tasks[t].pc = "idle"
  /\ tasks' = Initiated(t, UntilReadyTurn([IdleTask EXCEPT !.kind = "update",
                                                           !.blocks = blocks],
                                          um))
  /\ sawPartial' = (sawPartial \/ MidRebuild)
  /\ UNCHANGED <<doc, appended, um, running, lastRebuild>>

\* withUpdateLock(fn), called from a continuation of its own.
LockCall(t, fn) ==
  /\ Scheduled
  /\ tasks[t].pc = "idle"
  /\ tasks' = [tasks EXCEPT ![t] =
                 UntilReadyTurn([IdleTask EXCEPT !.kind = "lock", !.fn = fn], um)]
  /\ sawPartial' = (sawPartial \/ MidRebuild)
  /\ UNCHANGED <<doc, appended, um, running, lastRebuild>>

\* The timer of untilReady fires.
Poll(t) ==
  /\ Scheduled
  /\ tasks[t].pc = "sleep"
  /\ tasks' = [tasks EXCEPT ![t] = UntilReadyTurn(tasks[t], um)]
  /\ sawPartial' = (sawPartial \/ MidRebuild)
  /\ UNCHANGED <<doc, appended, um, running, lastRebuild>>

\* The callback of updateDocuments up to the loop over the blocks: the
\* 'updateBegan' handler and clear().
RebuildBegin(t) ==
  /\ Scheduled
  /\ tasks[t].kind = "update" /\ tasks[t].pc = "ready"
  /\ um' = [um EXCEPT !.isUpdateInProgress = TRUE]
  /\ doc' = Clear([doc EXCEPT !.editorToSourceLineNew = EmptyMap])
  /\ appended' = <<>>
  /\ tasks' = [tasks EXCEPT ![t].pc = "append", ![t].k = 1,
                            ![t].log = <<Event("isUpdateInProgress", 0, 0),
                                         Event("updateBegan", 0, 0),
                                         Event("clear", 0, 0)>>]
  /\ running' = t
  /\ sawPartial' = (sawPartial \/ MidRebuild)
  /\ UNCHANGED lastRebuild

\* The finally clause of the callback of updateDocuments (mutation: the flag
\* is cleared at the end of the try block only).
FinallyOnSuccess(m, threw) ==
  IF threw THEN m ELSE [m EXCEPT !.isUpdateInProgress = FALSE]

Finally(m, threw) == [m EXCEPT !.isUpdateInProgress = FALSE]

\* The two statements of a turn of the loop over the blocks, in their order
\* (mutation: the block is appended before 'blockAdded' is emitted).
TurnAppendFirst(codeBlock) == <<"append", "blockAdded">>

Turn(codeBlock) == <<"blockAdded", "append">>

\* The 'blockAdded' handler of the document: the editor of the block is noted
\* with the lastSourceLine of the document.
BlockAddedHandler(d, codeBlock) ==
  [d EXCEPT !.editorToSourceLineNew =
     [e \in (DOMAIN @) \cup {codeBlock.ceEditor} |->
        IF e = codeBlock.ceEditor THEN d.lastSourceLine ELSE @[e]]]

\* One statement of a turn, on the document.
TurnStatement(name, d, codeBlock) ==
  IF name = "blockAdded" THEN BlockAddedHandler(d, codeBlock)
  ELSE AppendCodeBlock(d, codeBlock, ZeroShift, ZeroShift)

\* The number of blocks in a document (none when the list is null).
BlocksIn(d) == IF d.lineBlocksNull THEN 0 ELSE Len(d.lineBlocks)

\* One turn of the loop over the blocks: the 'blockAdded' handler and
\* appendCodeBlock(codeBlock).
RebuildAppend(t) ==
  /\ running \in {t, NoTask}
  /\ tasks[t].pc = "append" /\ tasks[t].k <= Len(CapturedBlocks(tasks[t]))
  /\ ~Malformed(CapturedBlocks(tasks[t])[tasks[t].k])
  /\ LET codeBlock == CapturedBlocks(tasks[t])[tasks[t].k]
         turn == Turn(codeBlock)
         first == TurnStatement(turn[1], doc, codeBlock)
         second == TurnStatement(turn[2], first, codeBlock)
     IN /\ doc' = second
        /\ appended' = IF doc.isDisposed THEN appended
                       ELSE Append(appended, [block |-> codeBlock,
                                              editorShift |-> ZeroShift,
                                              virtualShift |-> ZeroShift])
        /\ running' = IF AppendYields(codeBlock) THEN NoTask ELSE t
        /\ tasks' = [tasks EXCEPT
                       ![t].k = @ + 1,
                       ![t].log = @ \o <<Event(turn[1], tasks[t].k, BlocksIn(first)),
                                         Event(turn[2], tasks[t].k, BlocksIn(second))>>]
  /\ UNCHANGED <<um, lastRebuild, sawPartial>>

\* A turn of the loop whose block is malformed: after the 'blockAdded'
\* handler, appendCodeBlock throws at value.split, before it has written
\* anything; the catch clause rejects the promise with the error and the
\* finally clause runs. The document stays as the rebuild has left it.
RebuildThrow(t) ==
  /\ running \in {t, NoTask}
  /\ tasks[t].pc = "append" /\ tasks[t].k <= Len(CapturedBlocks(tasks[t]))
  /\ Malformed(CapturedBlocks(tasks[t])[tasks[t].k])
  /\ LET codeBlock == CapturedBlocks(tasks[t])[tasks[t].k]
     IN /\ doc' = BlockAddedHandler(doc, codeBlock)
        /\ tasks' = [tasks EXCEPT
                       ![t].pc = "rejected",
                       ![t].log = @ \o <<Event("blockAdded", tasks[t].k, BlocksIn(doc)),
                                         Event("throw", tasks[t].k, BlocksIn(doc)),
                                         Event("reject", tasks[t].k, BlocksIn(doc))>>]
  /\ um' = Finally(um, TRUE)
  /\ lastRebuild' = [lastRebuild EXCEPT !.failed = TRUE]
  /\ running' = NoTask
  /\ UNCHANGED <<appended, sawPartial>>

\* The end of the callback: the 'updateFinished' handler, maybeEmitChanged,
\* resolve, and the finally clause.
RebuildFinish(t) ==
  /\ running \in {t, NoTask}
  /\ tasks[t].pc = "append" /\ tasks[t].k > Len(CapturedBlocks(tasks[t]))
  /\ LET finished == [doc EXCEPT !.editorToSourceLine = doc.editorToSourceLineNew]
         value == Value(finished)
     IN /\ doc' = [finished EXCEPT !.previousValue =
                                      [defined |-> TRUE, value |-> value]]
        /\ lastRebuild' = [done       |-> TRUE,
                           emitted    |-> ShouldEmit(value, doc.previousValue),
                           value      |-> value,
                           blocks     |-> tasks[t].blocks,
                           newest     |-> tasks[t].newest,
                           failed     |-> FALSE,
                           recovered  |-> lastRebuild.failed,
                           disposed   |-> doc.isDisposed,
                           hadPrev    |-> lastRebuild.done,
                           prevValue  |-> lastRebuild.value,
                           prevBlocks |-> lastRebuild.blocks]
  /\ um' = Finally(um, FALSE)
  /\ tasks' = [tasks EXCEPT
                 ![t].pc = "resolved",
                 ![t].log = @ \o <<Event("updateFinished", 0, 0),
                                   Event("documentUpdated", 0, 0)>>
                              \o (IF ShouldEmit(Value(doc), doc.previousValue)
                                    THEN <<Event("changed", 0, 0)>> ELSE <<>>)
                              \o <<Event("resolve", 0, 0)>>]
  /\ running' = NoTask
  /\ UNCHANGED <<appended, sawPartial>>

\* What fn does: it reads the document, calls updateDocuments, or throws.
LockFns == {"read", "update", "throw"}

\* The finally clause of withUpdateLock (mutation: the statement stands after
\* the call of fn, without try and finally).
LockReleaseOnSuccess(m, threw) ==
  IF threw THEN m ELSE [m EXCEPT !.updateLock = FALSE]

LockRelease(m, threw) == [m EXCEPT !.updateLock = FALSE]

\* The callback of withUpdateLock up to the call of fn: the lock is set.
\* (A callback that calls updateDocuments starts when a task is free to hold
\* that call.)
LockRun(t) ==
  /\ Scheduled
  /\ tasks[t].kind = "lock" /\ tasks[t].pc = "ready"
  /\ tasks[t].fn = "update" => \E u \in Tasks \ {t} : tasks[u].pc = "idle"
  /\ um' = [um EXCEPT !.updateLock = TRUE]
  /\ tasks' = [tasks EXCEPT ![t].pc = "locked"]
  /\ running' = t
  /\ sawPartial' = (sawPartial \/ MidRebuild)
  /\ UNCHANGED <<doc, appended, lastRebuild>>

\* fn and the finally clause: fn reads the document, or calls
\* updateDocuments(blocks), whose untilReady finds the guard taken and goes to
\* sleep, or throws, which rejects the promise of withUpdateLock.
LockFinish(t) ==
  /\ running = t
  /\ tasks[t].kind = "lock" /\ tasks[t].pc = "locked"
  /\ \/ /\ tasks[t].fn = "read"
        /\ tasks' = [tasks EXCEPT ![t].pc = "resolved"]
     \/ /\ tasks[t].fn = "update"
        /\ \E u \in Tasks \ {t}, blocks \in UpdateBlocks :
             /\ tasks[u].pc = "idle"
             /\ tasks' = [Initiated(u, UntilReadyTurn(
                                         [IdleTask EXCEPT !.kind = "update",
                                                          !.blocks = blocks],
                                         um))
                            EXCEPT ![t].pc = "resolved"]
     \/ /\ tasks[t].fn = "throw"
        /\ tasks' = [tasks EXCEPT ![t].pc = "rejected"]
  /\ um' = LockRelease(um, tasks[t].fn = "throw")
  /\ running' = NoTask
  /\ UNCHANGED <<doc, appended, lastRebuild, sawPartial>>

\* A continuation that reads the document (the adapter sending its text).
Reader ==
  /\ Scheduled
  /\ sawPartial' = (sawPartial \/ MidRebuild)
  /\ UNCHANGED <<doc, appended, um, tasks, running, lastRebuild>>

\* The adapter disconnects between two callbacks: virtualDocument.dispose(),
\* which calls updateManager.dispose(); that method leaves
\* UpdateManager.isDisposed as it is.
DisposeCall ==
  /\ Scheduled
  /\ ~doc.isDisposed
  /\ DocDispose

\* The caller of a settled call goes on.
TaskReturn(t) ==
  /\ Scheduled
  /\ tasks[t].pc \in {"resolved", "rejected", "exhausted"}
  /\ tasks' = [tasks EXCEPT ![t] = IdleTask]
  /\ UNCHANGED <<doc, appended, um, running, lastRebuild, sawPartial>>

-----------------------------------------------------------------------------
(* The selection of the server.  The sessions of the language server       *)
(* manager are a Map, iterated in the order of insertion; the priorities   *)
(* are those of the settings.                                              *)

MaxPriority == 2

SessionIds == {"pylsp", "uls", "rls"}

\* The languages of the spec of a session.
SessionLanguages(s) ==
  CASE s = "pylsp" -> {"python"}
    [] s = "uls"   -> {"python", "r"}
    [] OTHER       -> {"r"}

QueryLanguages == {"python", "r", "x"}

\* The orders in which the sessions can have been inserted.
SessionOrders ==
  {o \in [1..Cardinality(SessionIds) -> SessionIds] :
     \A i, j \in DOMAIN o : o[i] = o[j] => i = j}

Priorities == [SessionIds -> 1..MaxPriority]

\* LanguageServerManager._comparePriorities(a, b): negative when a goes
\* first. A tie is warned about and gives -1.
ComparePriorities(a, b, priority) ==
  IF priority[a] = priority[b]
    THEN [value |-> -1, warning |-> {<<a, b>>}]
    ELSE [value |-> IF priority[a] > priority[b] THEN -1 ELSE 1,
          warning |-> {}]

\* sort: s is put behind every server of the list that compares as going
\* before it, the comparisons made from the head of the list.
RECURSIVE RankInsert(_, _, _)
RankInsert(ranked, s, priority) ==
  IF Len(ranked) = 0 THEN [list |-> <<s>>, warnings |-> {}]
  ELSE LET c == ComparePriorities(ranked[1], s, priority)
       IN IF c.value > 0
            THEN [list |-> <<s>> \o ranked, warnings |-> c.warning]
            ELSE LET rest == RankInsert(Tail(ranked), s, priority)
                 IN [list |-> <<ranked[1]>> \o rest.list,
                     warnings |-> c.warning \cup rest.warnings]

\* LanguageServerManager.getMatchingServers({language}): the sessions whose
\* spec has the language, ranked.
RECURSIVE GetMatchingServers(_, _, _)
GetMatchingServers(order, priority, language) ==
  IF Len(order) = 0 THEN [list |-> <<>>, warnings |-> {}]
  ELSE LET before == GetMatchingServers(SubSeq(order, 1, Len(order) - 1),
                                        priority, language)
           s == order[Len(order)]
       IN IF language \notin SessionLanguages(s) THEN before
          ELSE LET r == RankInsert(before.list, s, priority)
               IN [list |-> r.list, warnings |-> before.warnings \cup r.warnings]

\* connectSocket from getMatchingServers to the choice of languageServerId.
SelectCall(order, priority, language) ==
  /\ LET matching == GetMatchingServers(order, priority, language)
     IN call' = [fn |-> "getMatchingServers", order |-> order,
                 priority |-> priority, language |-> language,
                 matchingServers |-> matching.list,
                 warnings |-> matching.warnings,
                 languageServerId |-> SelectServer(matching.list)]
  /\ UNCHANGED <<connVars, docVars, instances>>

\* Private.updateServerConfiguration with a connection made for a server
\* identifier that has none (mutation).
PushConfigurationCreating(pl, cr, sid) ==
  IF pl[sid] # NoConn
    THEN [pool |-> pl, sent |-> <<pl[sid]>>, threw |-> FALSE]
    ELSE [pool |-> [pl EXCEPT ![sid] = cr + 1], sent |-> <<cr + 1>>, threw |-> FALSE]

\* Private.updateServerConfiguration(languageServerId, settings): the pool
\* afterwards, the connections sendConfigurationChange was called on, and
\* whether the call threw.
PushConfiguration(pl, cr, sid) ==
  IF pl[sid] # NoConn
    THEN [pool |-> pl, sent |-> <<pl[sid]>>, threw |-> FALSE]
    ELSE [pool |-> pl, sent |-> <<>>, threw |-> FALSE]

\* The configuration of one server identifier is pushed.
UpdateServerConfiguration(sid) ==
  LET r == PushConfiguration(pool, created, sid)
  IN /\ pool' = r.pool
     /\ call' = [fn |-> "updateServerConfiguration", languageServerId |-> sid,
                 before |-> pool, after |-> r.pool, sent |-> r.sent,
                 threw |-> r.threw]
     /\ lastFanout' = NoFanout
     /\ UNCHANGED <<created, onCreateCalls, isReady, connections, documents,
                    ignoredLanguages, adapterDisposed, filteredHandler, procs,
                    instances>>

-----------------------------------------------------------------------------
(* The specifications.                                                     *)

InitConn ==
  /\ pool = [s \in ServerIds |-> NoConn]
  /\ created = 0
  /\ onCreateCalls = [s \in ServerIds |-> 0]
  /\ isReady = [c \in ConnIds |-> FALSE]
  /\ connections = <<>>
  /\ documents = {}
  /\ ignoredLanguages = {}
  /\ adapterDisposed = [d \in Docs |-> FALSE]
  /\ filteredHandler \in BOOLEAN
  /\ procs = [p \in Procs |-> IdleProc]
  /\ lastFanout = NoFanout

InitDoc ==
  /\ doc = NewDocument
  /\ appended = <<>>
  /\ um = NewUpdateManager
  /\ tasks = [t \in Tasks |-> IdleTask]
  /\ running = NoTask
  /\ lastRebuild = [done |-> FALSE, emitted |-> FALSE, value |-> <<>>,
                    blocks |-> <<>>, newest |-> FALSE,
                    failed |-> FALSE, recovered |-> FALSE,
                    disposed |-> FALSE,
                    hadPrev |-> FALSE, prevValue |-> <<>>,
                    prevBlocks |-> <<>>]
  /\ sawPartial = FALSE

InitPure == call = NoCall /\ instances = <<>>

Init == InitConn /\ InitDoc /\ InitPure

\* Concurrent connect calls on one manager, and documents unregistered.
Next ==
  \/ \E p \in Procs, d \in ConnectDocs : ConnectCall(p, d) /\ UNCHANGED nonConnVars
  \/ \E p \in Procs : ConnectResume(p) /\ UNCHANGED nonConnVars
  \/ \E p \in Procs : PollFast(p) /\ UNCHANGED nonConnVars
  \/ \E p \in Procs : PollSlow(p) /\ UNCHANGED nonConnVars
  \/ \E p \in Procs : Return(p) /\ UNCHANGED nonConnVars
  \/ \E c \in ConnIds : ServerReady(c) /\ UNCHANGED nonConnVars
  \/ \E d \in ConnectDocs : UnregisterDocument(d) /\ UNCHANGED nonConnVars

Spec == Init /\ [][Next]_vars

\* The adapters of three documents connecting through one manager, the
\* failures of the connections (the servers of this specification never
\* answer the initialize request), and the adapters' teardown.
NextEvents ==
  \/ \E a \in ConnectDocs : AdapterConnect("p1", a) /\ UNCHANGED nonConnVars
  \/ ConnectResume("p1") /\ UNCHANGED nonConnVars
  \/ PollFast("p1") /\ UNCHANGED nonConnVars
  \/ PollSlow("p1") /\ UNCHANGED nonConnVars
  \/ Return("p1") /\ UNCHANGED nonConnVars
  \/ \E c \in ConnIds, code \in {1005, 1006, 0} : ServerError(c, code) /\ UNCHANGED nonConnVars
  \/ \E c \in ConnIds, m \in BOOLEAN : ServerClose(c, m) /\ UNCHANGED nonConnVars
  \/ \E a \in ConnectDocs : AdapterDispose(a) /\ UNCHANGED nonConnVars

SpecEvents == Init /\ [][NextEvents]_vars

\* One caller of retryToConnect and connect, the events of the connections,
\* and the server configurations pushed to them.
NextRetry ==
  \/ \E d \in RetryDocs, q \in ReconnectDelays, n \in RetrialsLeft :
       RetryCall("p1", d, q, n) /\ UNCHANGED nonConnVars
  \/ \E d \in RetryDocs : ConnectCall("p1", d) /\ UNCHANGED nonConnVars
  \/ ConnectResume("p1") /\ UNCHANGED nonConnVars
  \/ PollFast("p1") /\ UNCHANGED nonConnVars
  \/ PollSlow("p1") /\ UNCHANGED nonConnVars
  \/ SleepDone("p1") /\ UNCHANGED nonConnVars
  \/ Return("p1") /\ UNCHANGED nonConnVars
  \/ \E c \in ConnIds : ServerReady(c) /\ UNCHANGED nonConnVars
  \/ \E c \in ConnIds, code \in {1005, 1006, 0} : ServerError(c, code) /\ UNCHANGED nonConnVars
  \/ \E sid \in ServerIds : UpdateServerConfiguration(sid) /\ UNCHANGED docVars

SpecRetry == Init /\ [][NextRetry]_vars

\* The adapters and their 'changed' signals: connections are made, become
\* ready, adapters are disposed and documents change in any order.
NextChange ==
  \/ \E a \in ConnectDocs : AdapterConnect("p1", a) /\ UNCHANGED nonConnVars
  \/ ConnectResume("p1") /\ UNCHANGED nonConnVars
  \/ PollFast("p1") /\ UNCHANGED nonConnVars
  \/ PollSlow("p1") /\ UNCHANGED nonConnVars
  \/ Return("p1") /\ UNCHANGED nonConnVars
  \/ \E c \in ConnIds : ServerReady(c) /\ UNCHANGED nonConnVars
  \/ \E a \in ConnectDocs : AdapterDispose(a) /\ UNCHANGED nonConnVars
  \/ \E a \in ConnectDocs : DocumentChanged(a) /\ UNCHANGED nonConnVars

SpecChange == Init /\ [][NextChange]_vars

\* The two maps of the manager: documents are connected, unregistered and
\* taken out of the documents map, and connections report errors and closes.
SignalDocs == {"d1", "d2"}

NextSignals ==
  \/ \E d \in SignalDocs : ConnectCall("p1", d) /\ UNCHANGED nonConnVars
  \/ ConnectResume("p1") /\ UNCHANGED nonConnVars
  \/ PollFast("p1") /\ UNCHANGED nonConnVars
  \/ PollSlow("p1") /\ UNCHANGED nonConnVars
  \/ Return("p1") /\ UNCHANGED nonConnVars
  \/ \E c \in ConnIds : ServerReady(c) /\ UNCHANGED nonConnVars
  \/ \E d \in SignalDocs : UnregisterDocument(d) /\ UNCHANGED nonConnVars
  \/ \E d \in SignalDocs : DisconnectDocumentSignals(d) /\ UNCHANGED nonConnVars
  \/ \E c \in ConnIds : ServerError(c, 1005) /\ UNCHANGED nonConnVars
  \/ \E c \in ConnIds : ServerClose(c, TRUE) /\ UNCHANGED nonConnVars

SpecSignals == Init /\ [][NextSignals]_vars

\* Blocks appended to one VirtualDocument, the document cleared and disposed.
NextDoc ==
  \/ \E block \in Blocks, shift \in Shifts :
       DocAppend(block, shift) /\ UNCHANGED <<connVars, instances>>
  \/ DocClear /\ UNCHANGED <<connVars, instances>>
  \/ DocDispose /\ UNCHANGED <<connVars, instances>>

SpecDoc == Init /\ [][NextDoc]_vars

\* Concurrent updateDocuments and withUpdateLock calls on the UpdateManager of
\* one VirtualDocument, and the continuations that read the document.
NextUpdate ==
  \/ \E t \in Tasks, blocks \in UpdateBlocks : UpdateCall(t, blocks) /\ UNCHANGED nonDocVars
  \/ \E t \in Tasks, fn \in LockFns : LockCall(t, fn) /\ UNCHANGED nonDocVars
  \/ \E t \in Tasks : Poll(t) /\ UNCHANGED nonDocVars
  \/ \E t \in Tasks : RebuildBegin(t) /\ UNCHANGED nonDocVars
  \/ \E t \in Tasks : RebuildAppend(t) /\ UNCHANGED nonDocVars
  \/ \E t \in Tasks : RebuildFinish(t) /\ UNCHANGED nonDocVars
  \/ \E t \in Tasks : LockRun(t) /\ UNCHANGED nonDocVars
  \/ \E t \in Tasks : LockFinish(t) /\ UNCHANGED nonDocVars
  \/ Reader /\ UNCHANGED nonDocVars
  \/ \E t \in Tasks : TaskReturn(t) /\ UNCHANGED nonDocVars

SpecUpdate == Init /\ [][NextUpdate]_vars

\* updateDocuments calls on one UpdateManager, some of them with a block
\* whose value is no string. No call is made from inside a callback, so none
\* finds the guard taken and has to wait.
NextFault ==
  \/ \E t \in Tasks, blocks \in UpdateBlocks \cup FaultyUpdateBlocks :
       UpdateCall(t, blocks) /\ UNCHANGED nonDocVars
  \/ \E t \in Tasks : RebuildBegin(t) /\ UNCHANGED nonDocVars
  \/ \E t \in Tasks : RebuildAppend(t) /\ UNCHANGED nonDocVars
  \/ \E t \in Tasks : RebuildThrow(t) /\ UNCHANGED nonDocVars
  \/ \E t \in Tasks : RebuildFinish(t) /\ UNCHANGED nonDocVars
  \/ \E t \in Tasks : TaskReturn(t) /\ UNCHANGED nonDocVars

SpecFault == Init /\ [][NextFault]_vars

\* The calls of SpecUpdate on a document that its adapter disposes at some
\* moment.
NextTeardown ==
  \/ \E t \in Tasks, blocks \in UpdateBlocks : UpdateCall(t, blocks) /\ UNCHANGED nonDocVars
  \/ \E t \in Tasks, fn \in LockFns : LockCall(t, fn) /\ UNCHANGED nonDocVars
  \/ \E t \in Tasks : Poll(t) /\ UNCHANGED nonDocVars
  \/ \E t \in Tasks : RebuildBegin(t) /\ UNCHANGED nonDocVars
  \/ \E t \in Tasks : RebuildAppend(t) /\ UNCHANGED nonDocVars
  \/ \E t \in Tasks : RebuildFinish(t) /\ UNCHANGED nonDocVars
  \/ \E t \in Tasks : LockRun(t) /\ UNCHANGED nonDocVars
  \/ \E t \in Tasks : LockFinish(t) /\ UNCHANGED nonDocVars
  \/ \E t \in Tasks : TaskReturn(t) /\ UNCHANGED nonDocVars
  \/ DisposeCall /\ UNCHANGED <<connVars, instances>>

SpecTeardown == Init /\ [][NextTeardown]_vars

\* The block lists of the calls whose settling is followed.
SettleBlocks ==
  {<<>>, <<Block(<<"a">>, "e1"), Block(UndefinedValue, "e2")>>}

\* New calls are made until the first rebuild has ended.
FirstRound == ~lastRebuild.done /\ ~lastRebuild.failed

\* updateDocuments, withUpdateLock and dispose in any interleaving.
NextSettle ==
  \/ \E t \in Tasks, blocks \in SettleBlocks :
       FirstRound /\ UpdateCall(t, blocks) /\ UNCHANGED nonDocVars
  \/ \E t \in Tasks, fn \in LockFns :
       FirstRound /\ LockCall(t, fn) /\ UNCHANGED nonDocVars
  \/ \E t \in Tasks : Poll(t) /\ UNCHANGED nonDocVars
  \/ \E t \in Tasks : RebuildBegin(t) /\ UNCHANGED nonDocVars
  \/ \E t \in Tasks : RebuildAppend(t) /\ UNCHANGED nonDocVars
  \/ \E t \in Tasks : RebuildThrow(t) /\ UNCHANGED nonDocVars
  \/ \E t \in Tasks : RebuildFinish(t) /\ UNCHANGED nonDocVars
  \/ \E t \in Tasks : LockRun(t) /\ UNCHANGED nonDocVars
  \/ \E t \in Tasks : LockFinish(t) /\ UNCHANGED nonDocVars
  \/ \E t \in Tasks : TaskReturn(t) /\ UNCHANGED nonDocVars
  \/ DisposeCall /\ UNCHANGED <<connVars, instances>>

\* The event loop: a timer that is due fires and a callback that is ready
\* runs once the callback being executed has ended (strong fairness: they are
\* enabled between two callbacks only); a callback that has started runs to
\* its end.
Continue(t) ==
  \/ Poll(t) \/ RebuildBegin(t) \/ RebuildAppend(t) \/ RebuildThrow(t)
  \/ RebuildFinish(t) \/ LockRun(t) \/ LockFinish(t)

FairSettle == \A t \in Tasks : SF_vars(Continue(t) /\ UNCHANGED nonDocVars)

SpecSettle == Init /\ [][NextSettle]_vars /\ FairSettle

\* isWithinRange applied to the positions and ranges of the grid.
NextRange ==
  /\ call = NoCall
  /\ \E position \in GridPositions, start \in GridPositions, end \in GridPositions :
       CallIsWithinRange(position, start, end)

SpecRange == Init /\ [][NextRange]_vars

\* The documents of one notebook constructed and disposed.
NextTree ==
  \/ \E language \in DocLanguages, standalone \in BOOLEAN,
        parent \in 0..MaxInstances, path \in Paths :
       CreateDocument(language, standalone, parent, path)
  \/ \E i \in 1..MaxInstances : DisposeDocument(i)

SpecTree == Init /\ [][NextTree]_vars

\* connectSocket choosing the server for a language, for every order of the
\* sessions and every assignment of priorities.
NextSelect ==
  /\ call = NoCall
  /\ \E order \in SessionOrders, priority \in Priorities,
        language \in QueryLanguages :
       SelectCall(order, priority, language)

SpecSelect == Init /\ [][NextSelect]_vars

-----------------------------------------------------------------------------
(* The claims.                                                             *)

ServerOf(d) == SelectServer(MatchingServers(Language(d)))

Count(x, seq) == Cardinality({i \in 1..Len(seq) : seq[i] = x})

\* C1 (Pool singleton): under any interleaving of concurrent connect calls, a
\* server identifier has at most one connection object and one onCreate
\* invocation, the pool holds the connection from the moment the creating call
\* suspends, and every caller holds the pool's connection of its server.
C1_PoolSingleton ==
  /\ \A s \in ServerIds :
       /\ onCreateCalls[s] <= 1
       /\ (pool[s] # NoConn) <=> (onCreateCalls[s] = 1)
  /\ created = Cardinality({s \in ServerIds : pool[s] # NoConn})
  /\ \A p \in Procs :
       procs[p].conn # NoConn => procs[p].conn = pool[ServerOf(procs[p].doc)]
  /\ \A p, q \in Procs :
       (/\ procs[p].conn # NoConn
        /\ procs[q].conn # NoConn
        /\ ServerOf(procs[p].doc) = ServerOf(procs[q].doc))
       => procs[p].conn = procs[q].conn

\* Two calls for different documents of one server are both suspended in
\* connectSocket, neither resumed yet.
C1_Witness ==
  /\ procs["p1"].pc = "sock"
  /\ procs["p2"].pc = "sock"
  /\ procs["p1"].doc # procs["p2"].doc
  /\ procs["p1"].conn = procs["p2"].conn

\* C2 (Retry bound): a retryToConnect call with budget n >= 1 whose attempts
\* all fail never makes more than n attempts, and has made exactly n when it
\* returns.
C2_RetryBound ==
  \A p \in Procs :
    LET pr == procs[p]
    IN (pr.kind = "retry" /\ ~pr.ignoredAtCall /\ pr.retrialsLeft >= 1 /\ pr.allFailed)
       => /\ pr.attempts <= pr.retrialsLeft
          /\ (pr.pc = "done" => pr.attempts = pr.retrialsLeft)

\* C3 (Retry back-off): while the attempts fail, the k-th sleep lasts
\* reconnectDelay + 0.5 (k - 1) seconds capped at 5 seconds, so no sleep of a
\* call with a starting delay of at most 5 seconds exceeds 5 seconds.
C3_BackOff ==
  \A p \in Procs :
    LET pr == procs[p]
    IN (pr.kind = "retry" /\ pr.allFailed /\ pr.reconnectDelay <= 5000)
       => \A k \in 1..Len(pr.sleeps) :
            /\ pr.sleeps[k] <= 5000
            /\ pr.sleeps[k] = IF pr.reconnectDelay + 500 * (k - 1) < 5000
                              THEN pr.reconnectDelay + 500 * (k - 1)
                              ELSE 5000

C5_RejectionFanout ==
  lastFanout.event = "rejected" =>
    /\ \A d \in lastFanout.bound :
         /\ Count(d, lastFanout.closed) = 1
         /\ Language(d) \in ignoredLanguages
    /\ \A i \in 1..Len(lastFanout.closed) : lastFanout.closed[i] \in lastFanout.bound

\* C6 (connect after ignore): a connect call for a document whose language is
\* ignored touches nothing: no pooled connection, no entry of the connections
\* or documents maps, no 'connected' or 'documentsChanged' signal.
C6_ConnectIgnoredNoop ==
  \A p \in Procs :
    (procs[p].kind = "connect" /\ procs[p].ignoredAtCall) => procs[p].fx = {}

\* The number of lines of a text: one more than its newline characters.
LineCount(value) == 1 + Cardinality({i \in 1..Len(value) : value[i] = NL})

\* The source lines, and the virtual lines, of the blocks appended before the
\* k-th.
RECURSIVE SourceLinesBefore(_, _)
SourceLinesBefore(app, k) ==
  IF k <= 1 THEN 0
  ELSE SourceLinesBefore(app, k - 1) + LineCount(app[k - 1].block.value)

VirtualLinesBefore(app, k) ==
  SourceLinesBefore(app, k) + (k - 1) * BlankLinesBetweenCells

\* The appended block a virtual line lies in, and whether it is one of the
\* blank lines that follow the block.
BlockOfVirtualLine(app, v) ==
  CHOOSE k \in 1..Len(app) :
    VirtualLinesBefore(app, k) <= v /\ v < VirtualLinesBefore(app, k + 1)

IsSeparatorLine(app, v) ==
  LET k == BlockOfVirtualLine(app, v)
  IN v >= VirtualLinesBefore(app, k) + LineCount(app[k].block.value)

\* The source line a virtual line of a block was contributed as.
ContributedSourceLine(app, v) ==
  LET k == BlockOfVirtualLine(app, v)
  IN SourceLinesBefore(app, k) + (v - VirtualLinesBefore(app, k))

\* C7 (idempotent change signal): a rebuild emits 'changed' exactly when the
\* value it produces differs from the value the previous rebuild produced (the
\* first rebuild of a document has no previous value and emits), and the second
\* of two consecutive rebuilds with identical input blocks does not emit.
C7_IdempotentChanged ==
  lastRebuild.done =>
    /\ lastRebuild.emitted <=>
         (~lastRebuild.hadPrev \/ lastRebuild.value # lastRebuild.prevValue)
    /\ (lastRebuild.hadPrev /\ lastRebuild.blocks = lastRebuild.prevBlocks)
         => ~lastRebuild.emitted

\* Two consecutive rebuilds have produced the same non-empty text from
\* different lists of blocks, and the second has not emitted.
C7_Witness ==
  /\ lastRebuild.done /\ lastRebuild.hadPrev
  /\ lastRebuild.blocks # lastRebuild.prevBlocks
  /\ lastRebuild.value = lastRebuild.prevValue
  /\ lastRebuild.value # <<>>
  /\ ~lastRebuild.emitted

\* C8 (rebuild atomicity): at most one rebuild is in progress at any time, no
\* continuation of another call (updateDocuments, a withUpdateLock callback, a
\* reader) has run between the clear() and the last append of a rebuild, and
\* whenever a continuation can start, the guards are free and the document is
\* the complete result of a rebuild.
C8_RebuildAtomicity ==
  /\ Cardinality({t \in Tasks : tasks[t].pc = "append"}) <= 1
  /\ ~sawPartial
  /\ Scheduled => (~MidRebuild /\ ~um.isUpdateInProgress /\ ~um.updateLock)
  /\ MidRebuild => (um.isUpdateInProgress /\ running # NoTask
                    /\ tasks[running].pc = "append")

\* A rebuild is between its clear() and its last append while another
\* updateDocuments call waits for its turn.
C8_Witness ==
  /\ MidRebuild
  /\ \E t \in Tasks :
       /\ t # running
       /\ tasks[t].kind = "update"
       /\ tasks[t].pc \in {"sleep", "ready"}
  /\ doc.lastVirtualLine > 0

\* C9 (round trip): for every position p on a mapped source line,
\* transformVirtualToSource(virtualPositionAtDocument(p)) is p, line and column.
C9_RoundTrip ==
  \A s \in DOMAIN doc.sourceLines, ch \in Columns :
    TransformVirtualToSource(doc, VirtualPositionAtDocument(doc, Pos(ch, s)))
      = Pos(ch, s)

\* Two blocks are appended, the second of more than one line.
C9_Witness ==
  /\ Len(appended) = 2
  /\ doc.lastSourceLine >= 3
  /\ LineCount(appended[2].block.value) >= 2
  /\ doc.lastSourceLine - 1 \in DOMAIN doc.sourceLines

LineThenColumnLE(a, b) ==
  a.line < b.line \/ (a.line = b.line /\ a.column <= b.column)

\* C11 (isWithinRange): for a range whose start is not after its end,
\* isWithinRange is true exactly when start <= position <= end in
\* line-then-column order.
C11_IsWithinRange ==
  (call.fn = "isWithinRange"
     /\ LineThenColumnLE(call.range.start, call.range.end))
    => (call.result <=> (/\ LineThenColumnLE(call.range.start, call.position)
                         /\ LineThenColumnLE(call.position, call.range.end)))

\* Position (2,6) is found inside the range (1,2)-(3,0).
C11_Witness ==
  /\ call.fn = "isWithinRange"
  /\ call.range = [start |-> [line |-> 1, column |-> 2],
                   end |-> [line |-> 3, column |-> 0]]
  /\ call.position = [line |-> 2, column |-> 6]
  /\ call.result

\* C12 (line-map invariant): in every state reached by clear() and
\* appendCodeBlock(), the keys of virtualLines are 0..lastVirtualLine-1, those
\* of sourceLines are 0..lastSourceLine-1, every virtual line maps to null or to
\* a source line, and virtualLines[v].sourceLine = s exactly when
\* sourceLines[s].virtualLine = v.
C12_LineMapInvariant ==
  ~doc.isDisposed =>
    /\ DOMAIN doc.virtualLines = 0..(doc.lastVirtualLine - 1)
    /\ DOMAIN doc.sourceLines = 0..(doc.lastSourceLine - 1)
    /\ \A v \in DOMAIN doc.virtualLines :
         \/ doc.virtualLines[v].sourceLine = Null
         \/ doc.virtualLines[v].sourceLine \in DOMAIN doc.sourceLines
    /\ \A v \in DOMAIN doc.virtualLines, s \in DOMAIN doc.sourceLines :
         (doc.virtualLines[v].sourceLine = s) <=> (doc.sourceLines[s].virtualLine = v)
    /\ \A s \in DOMAIN doc.sourceLines :
         Cardinality({v \in DOMAIN doc.virtualLines :
                        doc.virtualLines[v].sourceLine = s}) = 1

\* Two blocks lie in the maps of a document that is not disposed, the first of
\* several lines.
C12_Witness ==
  /\ ~doc.isDisposed
  /\ Len(appended) = 2
  /\ LineCount(appended[1].block.value) >= 2
  /\ doc.lastVirtualLine >= 7
  /\ doc.lastSourceLine >= 3

\* The text of a list of blocks: every text followed by one newline, the
\* results separated by blankLinesBetweenCells newlines.
RECURSIVE ExpectedValue(_)
ExpectedValue(blocks) ==
  IF Len(blocks) = 0 THEN <<>>
  ELSE IF Len(blocks) = 1 THEN blocks[1].value \o <<NL>>
  ELSE blocks[1].value \o <<NL>> \o [i \in 1..BlankLinesBetweenCells |-> NL]
         \o ExpectedValue(Tail(blocks))

\* The document a list of blocks gives when appended to a new document.
RECURSIVE BuiltFrom(_)
BuiltFrom(blocks) ==
  IF Len(blocks) = 0 THEN NewDocument
  ELSE AppendCodeBlock(BuiltFrom(SubSeq(blocks, 1, Len(blocks) - 1)),
                       blocks[Len(blocks)], ZeroShift, ZeroShift)

\* C13 (value of a rebuild): after a rebuild with blocks b1..bn the value is
\* the texts, each followed by a newline, joined by blankLinesBetweenCells
\* newlines, and the block list, the line maps and the counters are those of a
\* new document given b1..bn: nothing of an earlier rebuild is left.
C13_RebuildValue ==
  (lastRebuild.done /\ Scheduled) =>
    /\ Value(doc) = ExpectedValue(lastRebuild.blocks)
    /\ lastRebuild.value = ExpectedValue(lastRebuild.blocks)
    /\ doc.lineBlocks = BuiltFrom(lastRebuild.blocks).lineBlocks
    /\ doc.virtualLines = BuiltFrom(lastRebuild.blocks).virtualLines
    /\ doc.sourceLines = BuiltFrom(lastRebuild.blocks).sourceLines
    /\ doc.lastVirtualLine = BuiltFrom(lastRebuild.blocks).lastVirtualLine
    /\ doc.lastSourceLine = BuiltFrom(lastRebuild.blocks).lastSourceLine
    /\ doc.lastSourceLine = SourceLinesBefore(appended, Len(appended) + 1)

\* A rebuild with one block has followed a rebuild with two.
C13_Witness ==
  /\ lastRebuild.done /\ lastRebuild.hadPrev /\ Scheduled
  /\ Len(lastRebuild.prevBlocks) = 2
  /\ Len(lastRebuild.blocks) = 1
  /\ Value(doc) = <<"a", NL>>

\* C14 (connect gives up): a connect call that returns no connection after
\* both timeout stages has touched nothing: not the documents map, not the
\* connections map, not the pool, and it has emitted no signal.
C14_GiveUpFrame ==
  \A p \in Procs :
    (procs[p].kind = "connect" /\ procs[p].pc = "done"
       /\ procs[p].result = "undefined")
      => procs[p].fx = {}

\* C15 (unregisterDocument): the call removes the document's uri from the
\* connections map and emits documentsChanged once; every other uri keeps its
\* connection, and the pool, the connection objects and the documents map are
\* as before.
C15_UnregisterFrame ==
  [][\A d \in Docs :
       (lastFanout'.event = "unregistered" /\ lastFanout'.bound = {d})
         => /\ MapKeys(connections') = MapKeys(connections) \ {d}
            /\ \A e \in MapKeys(connections') :
                 MapGet(connections', e) = MapGet(connections, e)
            /\ lastFanout'.documentsChanged = 1
            /\ lastFanout'.closed = <<>>
            /\ pool' = pool /\ created' = created /\ isReady' = isReady
            /\ onCreateCalls' = onCreateCalls
            /\ documents' = documents
            /\ ignoredLanguages' = ignoredLanguages
            /\ pool[ServerOf(d)] = lastFanout'.conn]_vars

\* A document has been unregistered while another document is bound to the
\* same connection, which is still the pooled one.
C15_Witness ==
  /\ lastFanout.event = "unregistered"
  /\ \E e \in MapKeys(connections) :
       /\ e \notin lastFanout.bound
       /\ MapGet(connections, e) = lastFanout.conn
       /\ pool[ServerOf(e)] = lastFanout.conn

\* C16 (configuration push): pushing the configuration of a server identifier
\* sends one notification to the pooled connection of that identifier if there
\* is one; if there is none it sends nothing, does not throw, and the pool has
\* no entry for the identifier afterwards.
C16_ConfigurationPush ==
  call.fn = "updateServerConfiguration" =>
    /\ ~call.threw
    /\ call.after = call.before
    /\ IF call.before[call.languageServerId] # NoConn
         THEN call.sent = <<call.before[call.languageServerId]>>
         ELSE call.sent = <<>>

\* A configuration has been pushed to a pooled connection, and the pool holds
\* no connection for the other server identifier.
C16_Witness ==
  /\ call.fn = "updateServerConfiguration"
  /\ Len(call.sent) = 1
  /\ \E sid \in ServerIds : pool[sid] = NoConn

\* The documents from the top of the parent links down to document i.
RECURSIVE AncestorChain(_, _)
AncestorChain(insts, i) ==
  IF insts[i].parent = NoParent THEN <<i>>
  ELSE Append(AncestorChain(insts, insts[i].parent), i)

\* The virtual identifier as the claim gives it.
StatedVirtualId(d) ==
  IF d.standalone
    THEN NumberText(d.instanceId) \o <<"(">> \o d.language \o <<")">>
    ELSE d.language

\* C17 (URI construction): the uri of a document without a parent is
\* encode(path); the uri of a document with a parent is encode(path), '.', the
\* virtual identifiers of its chain of parents from the top down to the
\* document joined by '-', '.', and the file extension.
C17_UriConstruction ==
  \A i \in 1..Len(instances) :
    LET d == instances[i]
        chain == AncestorChain(instances, i)
        ids == [k \in 1..Len(chain) |-> StatedVirtualId(instances[chain[k]])]
    IN Uri(instances, i) =
         IF d.parent = NoParent THEN EncodeURI(d.path)
         ELSE EncodeURI(d.path) \o <<".">> \o Join(ids, <<"-">>) \o <<".">>
                \o d.file_extension

\* A standalone document lies two levels under the root of a path with a
\* space, and nothing is disposed.
C17_Witness ==
  /\ Len(instances) = 3
  /\ \A i \in 1..3 : ~instances[i].isDisposed
  /\ instances[3].standalone /\ instances[3].parent = 2 /\ instances[2].parent = 1
  /\ instances[1].path = <<"n", " ", "b">>

\* C18 (uri is an identity): in every state, also after disposals, the root
\* and the standalone documents created under it have pairwise different
\* uris, and every document has the uri it was created with.
C18_UriIdentity ==
  /\ \A i, j \in 1..Len(instances) :
       (/\ i # j
        /\ (i = 1 \/ instances[i].standalone)
        /\ (j = 1 \/ instances[j].standalone))
         => Uri(instances, i) # Uri(instances, j)
  /\ \A i \in 1..Len(instances) : Uri(instances, i) = instances[i].createdUri

\* C19 (lookups never throw): in every state of the document, the empty one
\* included, transformVirtualToSource, transformVirtualToEditor and
\* virtualPositionAtDocument return a position or null, and do not throw, for
\* the mapped lines, the padding lines and the lines past the mapped ones.
C19_LookupNeverThrows ==
  \A ch \in Columns :
    /\ \A v \in 0..(doc.lastVirtualLine + 1) :
         /\ TransformVirtualToSource(doc, Pos(ch, v)).kind # "throws"
         /\ TransformVirtualToEditor(doc, Pos(ch, v)).kind # "throws"
    /\ \A l \in 0..(doc.lastSourceLine + 1) :
         VirtualPositionAtDocument(doc, Pos(ch, l)).kind # "throws"

\* C20 (no failure is thrown): a connect call settles without rejecting,
\* whatever the outcome of the server selection and of the transport.
C20_ConnectNeverRejects ==
  \A p \in Procs :
    (procs[p].kind = "connect" /\ procs[p].pc = "done")
      => procs[p].result # "rejected"

\* C21 (append on a disposed document): appendCodeBlock on a disposed
\* VirtualDocument does not throw and leaves virtualLines, sourceLines, the
\* list of blocks, lastVirtualLine and lastSourceLine as they were.
C21_AppendDisposedNoop ==
  (call.fn = "appendCodeBlock" /\ call.disposed) =>
    /\ ~call.threw
    /\ doc.virtualLines = call.before.virtualLines
    /\ doc.sourceLines = call.before.sourceLines
    /\ doc.lineBlocks = call.before.lineBlocks
    /\ doc.lineBlocksNull = call.before.lineBlocksNull
    /\ doc.lastVirtualLine = call.before.lastVirtualLine
    /\ doc.lastSourceLine = call.before.lastSourceLine

\* A block has been given to a document that was disposed after two blocks
\* had been appended to it, and whose list of blocks is null.
C21_Witness ==
  /\ call.fn = "appendCodeBlock" /\ call.disposed
  /\ call.before.lineBlocksNull
  /\ call.before.lastVirtualLine >= 6
  /\ doc.isDisposed

\* C22 (withUpdateLock): fn runs only when no rebuild is in progress and no
\* other callback holds the lock; while fn runs the lock flag is set, no
\* rebuild is between its clear() and its end, and no other continuation
\* runs; once no callback is inside withUpdateLock the flag is clear, also
\* after an fn that threw.
C22_UpdateLock ==
  /\ \A t \in Tasks :
       tasks[t].pc = "locked" =>
         /\ tasks[t].kind = "lock"
         /\ um.updateLock
         /\ ~um.isUpdateInProgress
         /\ running = t
         /\ \A u \in Tasks \ {t} : tasks[u].pc \notin {"locked", "append"}
  /\ (\A t \in Tasks : tasks[t].pc # "locked") => ~um.updateLock
  /\ \A t \in Tasks :
       (tasks[t].kind = "lock" /\ tasks[t].pc \in {"resolved", "rejected"})
         => ~um.updateLock \/ \E u \in Tasks \ {t} : tasks[u].pc = "locked"

\* fn has thrown and the promise of withUpdateLock is rejected, while an
\* updateDocuments call made before it is due to rebuild and has not begun.
C22_Witness ==
  \E t \in Tasks, u \in Tasks :
    /\ tasks[t].kind = "lock" /\ tasks[t].pc = "rejected"
    /\ tasks[t].fn = "throw"
    /\ tasks[u].kind = "update" /\ tasks[u].pc = "ready"
    /\ ~um.updateLock

\* An updateDocuments call has not yet settled.
Pending(t) ==
  tasks[t].kind = "update" /\ tasks[t].pc \in {"sleep", "ready", "append"}

\* C23 (last lock wins): no updateDocuments call is dropped, every rebuild
\* produces the text of the blocks its own call was given, and once no call
\* is pending the value of the document is the text of the blocks of the call
\* whose rebuild ran last, whether or not that call was made last.
C23_LastLockWins ==
  /\ \A t \in Tasks :
       tasks[t].kind = "update" =>
         tasks[t].pc \in {"sleep", "ready", "append", "resolved"}
  /\ lastRebuild.done => lastRebuild.value = ExpectedValue(lastRebuild.blocks)
  /\ (lastRebuild.done /\ lastRebuild.hadPrev)
       => lastRebuild.prevValue = ExpectedValue(lastRebuild.prevBlocks)
  /\ (lastRebuild.done /\ \A t \in Tasks : ~Pending(t))
       => Value(doc) = ExpectedValue(lastRebuild.blocks)

\* Two calls have settled; the rebuild that ran last belongs to the call made
\* first, which had to wait one poll, and the document has its text and not
\* the text of the call made after it.
C23_Witness ==
  /\ lastRebuild.done /\ lastRebuild.hadPrev
  /\ ~lastRebuild.newest
  /\ \A t \in Tasks : ~Pending(t)
  /\ \E t \in Tasks, u \in Tasks :
       /\ tasks[t].kind = "update" /\ tasks[t].pc = "resolved"
       /\ tasks[t].i = 1 /\ ~tasks[t].newest
       /\ tasks[t].blocks = lastRebuild.blocks
       /\ tasks[u].kind = "update" /\ tasks[u].pc = "resolved"
       /\ tasks[u].newest /\ tasks[u].blocks = lastRebuild.prevBlocks
  /\ Value(doc) = ExpectedValue(lastRebuild.blocks)
  /\ Value(doc) # ExpectedValue(lastRebuild.prevBlocks)

\* C25 (dispose reaches the descendants): once dispose() of a document has
\* returned, every document created under it is disposed too, so that no
\* document that is not disposed has a disposed parent; a disposed document
\* stays disposed, without a parent.
C25_DisposeDescendants ==
  \A j \in 1..Len(instances) :
    /\ instances[j].isDisposed => instances[j].parent = NoParent
    /\ (instances[j].parent # NoParent
          /\ instances[instances[j].parent].isDisposed)
         => instances[j].isDisposed

\* The place of a session in the order of iteration.
IndexOf(order, s) == CHOOSE i \in DOMAIN order : order[i] = s

\* The sessions that match a language.
Matching(language) == {s \in SessionIds : language \in SessionLanguages(s)}

\* C26 (server selection ties): the ranked list holds the matching servers by
\* priority, highest first, servers of equal priority in the order of
\* iteration; every pair of matching servers of equal priority has been
\* warned about, both named, and compares as -1; connectSocket takes
\* the head of the list, which is the first server in the order of iteration
\* among those of the highest priority (null when none matches).
C26_SelectionTies ==
  call.fn = "getMatchingServers" =>
    LET ranked == call.matchingServers
        m == Matching(call.language)
        p == call.priority
        o == call.order
    IN /\ {ranked[i] : i \in DOMAIN ranked} = m
       /\ Len(ranked) = Cardinality(m)
       /\ \A i, j \in DOMAIN ranked :
            i < j => \/ p[ranked[i]] > p[ranked[j]]
                     \/ /\ p[ranked[i]] = p[ranked[j]]
                        /\ IndexOf(o, ranked[i]) < IndexOf(o, ranked[j])
       /\ call.warnings =
            {<<a, b>> \in m \X m :
               p[a] = p[b] /\ IndexOf(o, a) < IndexOf(o, b)}
       /\ \A w \in call.warnings :
            ComparePriorities(w[1], w[2], p).value = -1
       /\ IF m = {} THEN call.languageServerId = NoServer
          ELSE /\ call.languageServerId = ranked[1]
               /\ call.languageServerId \in m
               /\ \A s \in m \ {call.languageServerId} :
                    \/ p[s] < p[call.languageServerId]
                    \/ /\ p[s] = p[call.languageServerId]
                       /\ IndexOf(o, call.languageServerId) < IndexOf(o, s)

\* Two servers match with the same, highest priority; the one chosen is the
\* one iterated first, which is not the first in the order of the names.
C26_Witness ==
  /\ call.fn = "getMatchingServers"
  /\ call.language = "python"
  /\ call.priority["pylsp"] = call.priority["uls"]
  /\ IndexOf(call.order, "uls") < IndexOf(call.order, "pylsp")
  /\ call.languageServerId = "uls"
  /\ call.warnings = {<<"uls", "pylsp">>}

\* C27 (connection sharing): every connection in the connections map is the
\* pool's entry for the server identifier its document resolved to, and two
\* documents that resolved to the same server identifier are bound to the
\* same connection object.
C27_ConnectionSharing ==
  /\ \A d \in MapKeys(connections) :
       /\ MapGet(connections, d) # NoConn
       /\ \E s \in ServerIds : pool[s] = MapGet(connections, d)
       /\ pool[ServerOf(d)] = MapGet(connections, d)
  /\ \A d, e \in MapKeys(connections) :
       ServerOf(d) = ServerOf(e)
         => MapGet(connections, d) = MapGet(connections, e)

\* Two documents of different languages are bound to the one connection of
\* their server, a third document to the connection of another server.
C27_Witness ==
  /\ {"d1", "d2", "d3"} \subseteq MapKeys(connections)
  /\ MapGet(connections, "d1") = MapGet(connections, "d2")
  /\ MapGet(connections, "d3") # MapGet(connections, "d1")
  /\ pool["pylsp"] = MapGet(connections, "d1")
  /\ pool["rls"] = MapGet(connections, "d3")

\* The events of the turns of the first n blocks of a rebuild.
RECURSIVE TurnEvents(_)
TurnEvents(n) ==
  IF n = 0 THEN <<>>
  ELSE TurnEvents(n - 1) \o <<Event("blockAdded", n, n - 1), Event("append", n, n)>>

\* The events of a rebuild up to the end of the turn of its n-th block.
EventsUpTo(n) ==
  <<Event("isUpdateInProgress", 0, 0), Event("updateBegan", 0, 0),
    Event("clear", 0, 0)>> \o TurnEvents(n)

\* The first source line of the last block that the editor has among the
\* first n blocks.
NotedSourceLine(blocks, n, editor) ==
  LET ks == {k \in 1..n : blocks[k].ceEditor = editor}
      last == CHOOSE k \in ks : \A j \in ks : j <= k
      app == [k \in 1..n |-> [block |-> blocks[k]]]
  IN SourceLinesBefore(app, last)

\* C28 (order of the events of a rebuild): the flag is set, then 'update
\* began', then clear(), then for each block in the order of the input 'block
\* added', emitted when the blocks before it are in the document and the
\* block is not, followed by the append of that block, then 'update
\* finished', 'document updated', 'changed' if it is emitted, and the
\* resolution of the promise at the end.
C28_RebuildEventOrder ==
  \A t \in Tasks :
    /\ (tasks[t].kind = "update" /\ tasks[t].pc = "append") =>
         /\ tasks[t].log = EventsUpTo(tasks[t].k - 1)
         /\ BlocksIn(doc) = tasks[t].k - 1
         /\ \A k \in 1..(tasks[t].k - 1) :
              doc.editorToSourceLineNew[tasks[t].blocks[k].ceEditor] =
                NotedSourceLine(tasks[t].blocks, tasks[t].k - 1,
                                tasks[t].blocks[k].ceEditor)
    /\ (tasks[t].kind = "update" /\ tasks[t].pc = "resolved") =>
         LET n == Len(tasks[t].blocks)
             end == <<Event("updateFinished", 0, 0),
                      Event("documentUpdated", 0, 0)>>
         IN \/ tasks[t].log = EventsUpTo(n) \o end \o <<Event("resolve", 0, 0)>>
            \/ tasks[t].log = EventsUpTo(n) \o end
                                \o <<Event("changed", 0, 0), Event("resolve", 0, 0)>>

\* A rebuild with two blocks is in the turn of its second block: the first
\* block is in the document and its 'block added' came before its append.
C28_Witness ==
  \E t \in Tasks :
    /\ tasks[t].kind = "update" /\ tasks[t].pc = "append"
    /\ Len(tasks[t].blocks) = 2 /\ tasks[t].k = 2
    /\ Len(tasks[t].log) = 5
    /\ tasks[t].log[4] = Event("blockAdded", 1, 0)
    /\ tasks[t].log[5] = Event("append", 1, 1)
    /\ BlocksIn(doc) = 1

\* C29 (a rebuild that throws): the promise of the call is rejected with the
\* error and is not resolved, the in-progress flag is clear once the callback
\* has ended, and an updateDocuments call made afterwards finds the guard
\* free and completes: its rebuild gives the text of its blocks.
C29_RebuildThrows ==
  /\ \A t \in Tasks :
       tasks[t].kind = "update" =>
         /\ tasks[t].pc = "rejected" =>
              /\ tasks[t].k \in 1..Len(tasks[t].blocks)
              /\ Malformed(tasks[t].blocks[tasks[t].k])
              /\ tasks[t].log[Len(tasks[t].log)].e = "reject"
              /\ tasks[t].log[Len(tasks[t].log) - 1].e = "throw"
              /\ \A i \in 1..Len(tasks[t].log) : tasks[t].log[i].e # "resolve"
         /\ tasks[t].pc = "resolved" =>
              \A k \in 1..Len(tasks[t].blocks) : ~Malformed(tasks[t].blocks[k])
         /\ tasks[t].pc \in {"ready", "append", "resolved", "rejected"}
         /\ tasks[t].i = 0
  /\ Scheduled => (~um.isUpdateInProgress /\ CanUpdate(um))
  /\ (lastRebuild.done /\ ~lastRebuild.failed /\ Scheduled)
       => Value(doc) = ExpectedValue(lastRebuild.blocks)

\* A rebuild has thrown at its second block, and a call made after it has
\* rebuilt the document with two blocks.
C29_Witness ==
  /\ lastRebuild.done /\ lastRebuild.recovered /\ ~lastRebuild.failed
  /\ Scheduled
  /\ Len(lastRebuild.blocks) = 2
  /\ Value(doc) = ExpectedValue(lastRebuild.blocks)
  /\ \E t \in Tasks :
       /\ tasks[t].kind = "update" /\ tasks[t].pc = "rejected"
       /\ tasks[t].k = 2

\* C30 (updateDocuments after dispose): a call that runs, or wakes from its
\* wait, after the document was disposed does not throw, leaves the maps
\* empty and the list of blocks as dispose() left it (null), and emits no
\* 'changed'.
C30_UpdateAfterDisposeNoop ==
  /\ \A t \in Tasks : tasks[t].kind = "update" => tasks[t].pc # "rejected"
  /\ doc.isDisposed =>
       /\ doc.virtualLines = EmptyMap
       /\ doc.sourceLines = EmptyMap
       /\ doc.lineBlocksNull
  /\ (lastRebuild.done /\ lastRebuild.disposed) => ~lastRebuild.emitted

\* C31 (end of the retries): a retryToConnect call makes no attempt after the
\* first attempt that gave a connection, whatever its retrialsLeft; a call
\* with retrialsLeft = -1 whose attempts have all failed has not returned.
C31_RetryUntilSuccess ==
  \A p \in Procs :
    LET pr == procs[p]
    IN (pr.kind = "retry" /\ ~pr.ignoredAtCall) =>
         /\ pr.connectedAt # 0 => pr.attempts = pr.connectedAt
         /\ (pr.retrialsLeft = -1 /\ pr.allFailed) => pr.pc # "done"

\* C32 (what connect() reports): a connect() call emits 'connected' and
\* returns the connection only after it has found the connection ready, at
\* once or at a poll of the fast or of the slow stage; it emits 'connected' at
\* most once; a call that gave up emitted nothing; the slow stage starts only
\* after the fast stage has made all its FastRetrials polls.
C32_ConnectedOnlyIfReady ==
  \A p \in Procs :
    LET pr == procs[p]
    IN /\ pr.emits <= 1
       /\ pr.emits = 1 =>
            /\ pr.result = "connected" /\ pr.conn # NoConn /\ isReady[pr.conn]
            /\ pr.readyAt \in {"immediate", "fast", "slow"}
       /\ (pr.pc \in {"done", "sleep"} /\ pr.attempts > 0) =>
            (pr.result = "connected" <=> pr.emits = 1)
       /\ pr.readyAt = "immediate" => pr.fastPolls = 0 /\ pr.slowPolls = 0
       /\ pr.readyAt = "fast" =>
            pr.fastPolls \in 1..FastRetrials /\ pr.slowPolls = 0
       /\ (pr.readyAt = "slow" \/ pr.pc = "slow" \/ pr.slowPolls > 0) =>
            pr.fastPolls = FastRetrials
       /\ pr.readyAt = "slow" => pr.slowPolls \in 1..SlowRetrials
       /\ (pr.pc \in {"done", "sleep"} /\ pr.result = "undefined") =>
            pr.fastPolls = FastRetrials /\ pr.slowPolls = SlowRetrials

\* A call that found the connection ready at a poll of the slow stage.
C32_Witness ==
  \E p \in Procs :
    /\ procs[p].kind = "connect" /\ procs[p].pc = "done"
    /\ procs[p].result = "connected" /\ procs[p].readyAt = "slow"

\* C33 (the 'disconnected' signal): when a pooled connection closes without
\* having been closed manually, every document bound to it receives one
\* 'disconnected' signal.
C33_DisconnectedFanout ==
  lastFanout.event = "lost" =>
    \A d \in lastFanout.bound : Count(d, lastFanout.disconnected) = 1

\* C34 (the 'closed' signal of a manual close): when a pooled connection
\* reports 'close' with closedManually true, every document bound to it at
\* that moment receives exactly one 'closed' signal and no other document
\* receives one; with closedManually false no 'closed' signal is emitted.
C34_ManualCloseFanout ==
  /\ lastFanout.event = "closed" =>
       /\ \A d \in lastFanout.bound : Count(d, lastFanout.closed) = 1
       /\ \A i \in 1..Len(lastFanout.closed) :
            lastFanout.closed[i] \in lastFanout.bound
  /\ lastFanout.event = "lost" => lastFanout.closed = <<>>

\* C35 (full-text changes): a 'changed' signal makes the adapter send the full
\* text only over the connection bound to the document's uri, only if that
\* connection is ready and the adapter is not disposed; with no connection
\* bound, a connection that is not ready, or a disposed adapter nothing is sent.
C35_ChangeSentWhenReady ==
  \A a \in lastFanout.bound :
    LET bound == MapHas(connections, a)
    IN /\ lastFanout.event = "sent" =>
            /\ bound /\ lastFanout.conn = MapGet(connections, a)
            /\ isReady[lastFanout.conn]
            /\ ~adapterDisposed[a]
       /\ lastFanout.event = "skipped" =>
            \/ ~bound
            \/ ~isReady[MapGet(connections, a)]
            \/ adapterDisposed[a]

\* A change sent for a document whose connection another document shares.
C35_Witness ==
  /\ lastFanout.event = "sent"
  /\ \E a \in lastFanout.bound, e \in ConnectDocs :
       /\ e # a /\ MapHas(connections, e)
       /\ MapGet(connections, e) = lastFanout.conn

\* A change that arrived while the connection was bound and not yet ready.
C35_WitnessSkipped ==
  /\ lastFanout.event = "skipped"
  /\ \E a \in lastFanout.bound :
       MapHas(connections, a) /\ ~isReady[MapGet(connections, a)]

\* C36 (the pool only grows): no step removes or replaces a pool entry or
\* invokes onCreate again for a server identifier that has a connection, also
\* after that connection reported an error or a close; every get-or-create
\* for such an identifier returns the pooled object.
C36_PoolEntriesKept ==
  [][/\ \A s \in ServerIds :
          pool[s] # NoConn =>
            pool'[s] = pool[s] /\ onCreateCalls'[s] = onCreateCalls[s]
     /\ \A p \in Procs :
          (/\ procs'[p].pc = "sock" /\ procs[p].pc # "sock"
           /\ pool[ServerOf(procs'[p].doc)] # NoConn)
          => procs'[p].conn = pool[ServerOf(procs'[p].doc)]]_vars

\* A get-or-create that returned the pooled connection after that connection
\* had reported the error 1005 to another document of the same server.
C36_Witness ==
  \E p \in Procs, d \in ConnectDocs :
    /\ procs[p].pc = "sock" /\ procs[p].doc # d
    /\ adapterDisposed[d] /\ Language(d) \in ignoredLanguages
    /\ ServerOf(d) = ServerOf(procs[p].doc)
    /\ onCreateCalls[ServerOf(d)] = 1
    /\ procs[p].conn = pool[ServerOf(d)]

\* C37 (updateDocuments settles): every call of updateDocuments is eventually
\* resolved or rejected, whatever other updateDocuments calls, withUpdateLock
\* callbacks and dispose() are interleaved with it, the timers firing; no
\* call is ever left with an exhausted poll budget.
C37_UpdateSettles ==
  /\ [](\A t \in Tasks :
          tasks[t].kind = "update" => tasks[t].pc # "exhausted")
  /\ \A t \in Tasks :
       (tasks[t].kind = "update" /\ tasks[t].pc # "idle")
         ~> (tasks[t].kind = "update" /\ tasks[t].pc \in {"resolved", "rejected"})

\* A call made inside a withUpdateLock callback has waited for a timer and is
\* resolved, on a document that was disposed.
C37_Witness ==
  \E t \in Tasks :
    /\ tasks[t].kind = "update" /\ tasks[t].pc = "resolved"
    /\ tasks[t].i >= 1
    /\ doc.isDisposed

\* C38 (editor to root): with b the blocks of the last completed rebuild,
\* their editors distinct, transformFromEditorToRoot(editor of b[k], p)
\* returns p with its line increased by the number of source lines of the
\* blocks before b[k], in every state up to the end of the next rebuild (the
\* map is replaced at 'update finished' only); for an editor that b does not
\* have it returns null; and while the document of that rebuild stands,
\* transformSourceToEditor gives p back.
C38_EditorToRoot ==
  LET blocks == lastRebuild.blocks
      app == [k \in 1..Len(blocks) |-> [block |-> blocks[k]]]
      distinct == \A j, k \in 1..Len(blocks) :
                    blocks[j].ceEditor = blocks[k].ceEditor => j = k
      standing == /\ lastRebuild.done /\ ~lastRebuild.failed /\ ~doc.isDisposed
                  /\ \A t \in Tasks : tasks[t].pc # "append"
  IN distinct =>
       /\ \A e \in Editors \ {blocks[k].ceEditor : k \in 1..Len(blocks)} :
            \A line \in 0..MaxGridLine, ch \in Columns :
              TransformFromEditorToRoot(doc, e, Pos(ch, line)) = NullResult
       /\ \A k \in 1..Len(blocks) :
            \A line \in 0..(Len(Split(blocks[k].value)) - 1), ch \in Columns :
              LET p == Pos(ch, line)
                  r == TransformFromEditorToRoot(doc, blocks[k].ceEditor, p)
              IN /\ r = Pos(ch, line + SourceLinesBefore(app, k))
                 /\ standing => TransformSourceToEditor(doc, r) = p

\* The text of source line s of the appended blocks.
SourceText(app, s) ==
  LET k == CHOOSE j \in 1..Len(app) :
             /\ SourceLinesBefore(app, j) <= s
             /\ s < SourceLinesBefore(app, j) + LineCount(app[j].block.value)
  IN Split(app[k].block.value)[s - SourceLinesBefore(app, k) + 1]

\* C39 (the line maps and the text): after any appendCodeBlock calls, for
\* every virtual line v that maps to a source line, line v of value, split on
\* newline, is the text of that source line in its block; every virtual line
\* that maps to null is an empty line of value or lies past its last line.
C39_LineMapsMatchValue ==
  ~doc.isDisposed =>
    LET text == Split(Value(doc))
    IN \A v \in DOMAIN doc.virtualLines :
         IF doc.virtualLines[v].sourceLine # Null
           THEN /\ v + 1 <= Len(text)
                /\ doc.virtualLines[v].sourceLine < SourceLinesBefore(appended, Len(appended) + 1)
                /\ text[v + 1] = SourceText(appended, doc.virtualLines[v].sourceLine)
           ELSE v + 1 > Len(text) \/ text[v + 1] = <<>>

\* Two blocks, the second with empty lines of its own and text after them.
C39_Witness ==
  /\ ~doc.isDisposed
  /\ Len(appended) = 2
  /\ appended[1].block.value = <<"a", NL, "a">>
  /\ appended[2].block.value = <<"a", NL, NL, NL, "a">>
  /\ 7 \in DOMAIN doc.virtualLines
  /\ doc.virtualLines[7].sourceLine = 5
  /\ doc.virtualLines[3].sourceLine = Null
  /\ Split(Value(doc))[8] = <<"a">>

\* C40 (the two maps): in every state reached by connect, unregisterDocument
\* and disconnect_document_signals every uri that is a key of connections is
\* a key of documents, and no fan-out of 'closed' delivers a missing virtual
\* document or throws on one.
C40_ConnectionsHaveDocuments ==
  /\ MapKeys(connections) \subseteq documents
  /\ lastFanout.event \in {"closed", "rejected"} =>
       /\ ~lastFanout.threw
       /\ \A i \in 1..Len(lastFanout.closed) : lastFanout.closed[i] # Undefined

=============================================================================
